---- MODULE Spec2Model ----
(***************************************************************************)
(* worktree-container: a state-machine model of the port allocator          *)
(* (internal/port), the label store (internal/docker) and the lifecycle     *)
(* commands create / list / start / stop / remove (internal/cli).           *)
(*                                                                          *)
(* Three specifications share the module:                                     *)
(*   SpecAlloc  the allocator as a pure function: Init draws a batch, a     *)
(*              worktree index, a known set and an OS state; the actions    *)
(*              run AllocatePorts and chain the result into the next index. *)
(*   Spec       the lifecycle: one action per CLI command, plus the events  *)
(*              of the host that change what the commands find (a container *)
(*              exits).  Whether the Docker daemon answers and which ports  *)
(*              foreign processes hold are inputs of each command.          *)
(*   SpecFull   the same commands run in the one-service compose            *)
(*              repository on a host that already has nine environments,    *)
(*              where the worktree index has reached its cap.               *)
(***************************************************************************)
EXTENDS Integers, Sequences, FiniteSets, TLC

VARIABLES
    aPc,        \* SpecAlloc: "ready" before AllocatePorts runs, "done" after
    aIn,        \* SpecAlloc: the inputs of the run (batch, index, known set, OS state)
    aOut,       \* SpecAlloc: what AllocatePorts returned
    aHist,      \* SpecAlloc: the results of the chained runs, oldest first
    containers, \* the Docker daemon's containers, newest first (ContainerList order)
    dirs,       \* worktree paths that exist on disk
    gitWts,     \* worktrees registered in the source repository: [path, branch]
    srcFs,      \* files of the source repository's .devcontainer directory
    wtFs,       \* files under each worktree's .devcontainer directory
    clock,      \* wall clock in half seconds (source of worktree.created-at)
    last        \* the outcome of the most recent command

allocVars == <<aPc, aIn, aOut, aHist>>
lifeVars  == <<containers, dirs, gitWts, srcFs, wtFs, clock, last>>
vars      == <<aPc, aIn, aOut, aHist, containers, dirs, gitWts, srcFs, wtFs, clock, last>>

(***************************************************************************)
(* Sequence helpers                                                         *)
(***************************************************************************)
Range(s) == {s[i] : i \in 1..Len(s)}

RECURSIVE SeqsUpTo(_, _)
SeqsUpTo(S, n) ==
    IF n = 0 THEN {<<>>}
    ELSE LET shorter == SeqsUpTo(S, n - 1)
         IN  shorter \cup {Append(s, x) : s \in {t \in shorter : Len(t) = n - 1}, x \in S}

(***************************************************************************)
(* internal/port: constants                                                 *)
(***************************************************************************)
portShiftMultiplier == 10000
maxPort             == 65535
dynamicRangeStart   == 49152
dynamicRangeEnd     == 65535
maxWorktreeIndex    == 9

(***************************************************************************)
(* The OS port table is a set of busy ranges [proto, lo, hi]; a single     *)
(* listener is a range with lo = hi.                                        *)
(***************************************************************************)
OsBusy(busy, port, protocol) ==
    \E r \in busy : r.proto = protocol /\ r.lo <= port /\ port <= r.hi

\* Scanner.IsPortAvailable: a bind probe per protocol; any protocol other
\* than tcp and udp is reported unavailable.
IsPortAvailable(busy, port, protocol) ==
    CASE protocol = "tcp" -> ~OsBusy(busy, port, "tcp")
      [] protocol = "udp" -> ~OsBusy(busy, port, "udp")
      [] OTHER            -> FALSE

\* isPortAvailableForAllocation without the known-set loop (OS probe only)
isPortAvailableForAllocationOsOnly(existing, busy, port, protocol) ==
    IsPortAvailable(busy, port, protocol)

\* Allocator.isPortAvailableForAllocation: the known set first, then the OS.
isPortAvailableForAllocation(existing, busy, port, protocol) ==
    /\ ~\E i \in 1..Len(existing) :
            existing[i].hostPort = port /\ existing[i].protocol = protocol
    /\ IsPortAvailable(busy, port, protocol)

\* findAvailablePortExcludingExisting scanning downward from endPort
findAvailablePortFromTop(existing, busy, startPort, endPort, protocol) ==
    IF \E p \in startPort..endPort : isPortAvailableForAllocation(existing, busy, p, protocol)
    THEN [err |-> FALSE,
          port |-> CHOOSE p \in startPort..endPort :
                      /\ isPortAvailableForAllocation(existing, busy, p, protocol)
                      /\ \A q \in (p + 1)..endPort :
                            ~isPortAvailableForAllocation(existing, busy, q, protocol)]
    ELSE [err |-> TRUE, port |-> 0]

\* Allocator.findAvailablePortExcludingExisting: the first port of
\* [startPort, endPort], scanning upward, that is available; 0 with an error
\* when there is none.
findAvailablePortExcludingExisting(existing, busy, startPort, endPort, protocol) ==
    IF \E p \in startPort..endPort : isPortAvailableForAllocation(existing, busy, p, protocol)
    THEN [err |-> FALSE,
          port |-> CHOOSE p \in startPort..endPort :
                      /\ isPortAvailableForAllocation(existing, busy, p, protocol)
                      /\ \A q \in startPort..(p - 1) :
                            ~isPortAvailableForAllocation(existing, busy, q, protocol)]
    ELSE [err |-> TRUE, port |-> 0]

NoAlloc == [serviceName |-> "", containerPort |-> 0, hostPort |-> 0,
            protocol |-> "", label |-> ""]

\* AllocatePort shifting index 0 like every other index
AllocatePortIndexZeroShifted(existing, busy, originalPort, worktreeIndex, serviceName, protocol0) ==
    IF worktreeIndex < 0 \/ worktreeIndex > maxWorktreeIndex
    THEN [err |-> TRUE, alloc |-> NoAlloc]
    ELSE
    LET protocol  == IF protocol0 = "" THEN "tcp" ELSE protocol0
        hostPort  == originalPort + ((worktreeIndex + 1) * portShiftMultiplier)
        mk(p)     == [err |-> FALSE,
                      alloc |-> [serviceName |-> serviceName, containerPort |-> originalPort,
                                 hostPort |-> p, protocol |-> protocol, label |-> ""]]
        fallback  == findAvailablePortExcludingExisting(existing, busy,
                         dynamicRangeStart, dynamicRangeEnd, protocol)
        blockEnd0 == hostPort + portShiftMultiplier - 1
        blockEnd  == IF blockEnd0 > maxPort THEN maxPort ELSE blockEnd0
        inBlock   == findAvailablePortExcludingExisting(existing, busy,
                         hostPort + 1, blockEnd, protocol)
    IN  IF hostPort > maxPort
        THEN IF fallback.err THEN [err |-> TRUE, alloc |-> NoAlloc] ELSE mk(fallback.port)
        ELSE IF ~isPortAvailableForAllocation(existing, busy, hostPort, protocol)
        THEN IF ~inBlock.err THEN mk(inBlock.port)
             ELSE IF fallback.err THEN [err |-> TRUE, alloc |-> NoAlloc]
             ELSE mk(fallback.port)
        ELSE mk(hostPort)

\* AllocatePort with the shift computed from a 0-based index
AllocatePortZeroBased(existing, busy, originalPort, worktreeIndex, serviceName, protocol0) ==
    IF worktreeIndex < 0 \/ worktreeIndex > maxWorktreeIndex
    THEN [err |-> TRUE, alloc |-> NoAlloc]
    ELSE
    LET protocol  == IF protocol0 = "" THEN "tcp" ELSE protocol0
        hostPort  == IF worktreeIndex = 0 THEN originalPort
                     ELSE originalPort + ((worktreeIndex - 1) * portShiftMultiplier)
        mk(p)     == [err |-> FALSE,
                      alloc |-> [serviceName |-> serviceName, containerPort |-> originalPort,
                                 hostPort |-> p, protocol |-> protocol, label |-> ""]]
        fallback  == findAvailablePortExcludingExisting(existing, busy,
                         dynamicRangeStart, dynamicRangeEnd, protocol)
        blockEnd0 == hostPort + portShiftMultiplier - 1
        blockEnd  == IF blockEnd0 > maxPort THEN maxPort ELSE blockEnd0
        inBlock   == findAvailablePortExcludingExisting(existing, busy,
                         hostPort + 1, blockEnd, protocol)
    IN  IF hostPort > maxPort
        THEN IF fallback.err THEN [err |-> TRUE, alloc |-> NoAlloc] ELSE mk(fallback.port)
        ELSE IF ~isPortAvailableForAllocation(existing, busy, hostPort, protocol)
        THEN IF ~inBlock.err THEN mk(inBlock.port)
             ELSE IF fallback.err THEN [err |-> TRUE, alloc |-> NoAlloc]
             ELSE mk(fallback.port)
        ELSE mk(hostPort)

\* Allocator.AllocatePort
AllocatePort(existing, busy, originalPort, worktreeIndex, serviceName, protocol0) ==
    IF worktreeIndex < 0 \/ worktreeIndex > maxWorktreeIndex
    THEN [err |-> TRUE, alloc |-> NoAlloc]
    ELSE
    LET protocol  == IF protocol0 = "" THEN "tcp" ELSE protocol0
        hostPort  == IF worktreeIndex = 0 THEN originalPort
                     ELSE originalPort + (worktreeIndex * portShiftMultiplier)
        mk(p)     == [err |-> FALSE,
                      alloc |-> [serviceName |-> serviceName, containerPort |-> originalPort,
                                 hostPort |-> p, protocol |-> protocol, label |-> ""]]
        fallback  == findAvailablePortExcludingExisting(existing, busy,
                         dynamicRangeStart, dynamicRangeEnd, protocol)
        blockEnd0 == hostPort + portShiftMultiplier - 1
        blockEnd  == IF blockEnd0 > maxPort THEN maxPort ELSE blockEnd0
        inBlock   == findAvailablePortExcludingExisting(existing, busy,
                         hostPort + 1, blockEnd, protocol)
    IN  IF hostPort > maxPort
        THEN IF fallback.err THEN [err |-> TRUE, alloc |-> NoAlloc] ELSE mk(fallback.port)
        ELSE IF ~isPortAvailableForAllocation(existing, busy, hostPort, protocol)
        THEN IF ~inBlock.err THEN mk(inBlock.port)
             ELSE IF fallback.err THEN [err |-> TRUE, alloc |-> NoAlloc]
             ELSE mk(fallback.port)
        ELSE mk(hostPort)

\* Allocator.AllocatePorts: the loop over the batch.  existing is the
\* allocator's existingAllocations field, which grows by every allocation
\* made; allocs is the slice being returned.
RECURSIVE AllocatePortsLoop(_, _, _, _, _, _)

\* AllocatePorts without the append to existingAllocations inside the loop
AllocatePortsLoopNoAppend(ports, i, worktreeIndex, existing, busy, allocs) ==
    IF i > Len(ports)
    THEN [err |-> FALSE, allocs |-> allocs, existing |-> existing]
    ELSE
    LET ps    == ports[i]
        proto == IF ps.protocol = "" THEN "tcp" ELSE ps.protocol
        r     == AllocatePort(existing, busy, ps.containerPort, worktreeIndex,
                              ps.serviceName, proto)
        alloc == [r.alloc EXCEPT !.label = ps.label]
    IN  IF r.err
        THEN [err |-> TRUE, allocs |-> <<>>, existing |-> existing]
        ELSE AllocatePortsLoop(ports, i + 1, worktreeIndex,
                               existing, busy, Append(allocs, alloc))

AllocatePortsLoop(ports, i, worktreeIndex, existing, busy, allocs) ==
    IF i > Len(ports)
    THEN [err |-> FALSE, allocs |-> allocs, existing |-> existing]
    ELSE
    LET ps    == ports[i]
        proto == IF ps.protocol = "" THEN "tcp" ELSE ps.protocol
        r     == AllocatePort(existing, busy, ps.containerPort, worktreeIndex,
                              ps.serviceName, proto)
        alloc == [r.alloc EXCEPT !.label = ps.label]
    IN  IF r.err
        THEN [err |-> TRUE, allocs |-> <<>>, existing |-> existing]
        ELSE AllocatePortsLoop(ports, i + 1, worktreeIndex,
                               Append(existing, alloc), busy, Append(allocs, alloc))

AllocatePorts(existing, busy, ports, worktreeIndex) ==
    AllocatePortsLoop(ports, 1, worktreeIndex, existing, busy, <<>>)

(***************************************************************************)
(* SpecAlloc: the allocator run on inputs drawn from bounded sets           *)
(***************************************************************************)
MaxBatch == 2      \* longest batch drawn (the three-service batch is drawn besides)
MaxChain == 3      \* how many consecutive indices one behaviour allocates for

PS(service, port, protocol) ==
    [serviceName |-> service, containerPort |-> port, hostPort |-> 0,
     protocol |-> protocol, label |-> ""]

PA(service, port, host, protocol) ==
    [serviceName |-> service, containerPort |-> port, hostPort |-> host,
     protocol |-> protocol, label |-> ""]

BusyRange(protocol, lo, hi) == [proto |-> protocol, lo |-> lo, hi |-> hi]

\* PortSpecs a batch is built from: two services on the same container port,
\* an empty protocol, and a privileged UDP port.  The shift of port 3000
\* overflows 65535 from index 7 on.
SpecChoices ==
    { PS("app", 3000, "tcp"), PS("web", 3000, ""), PS("dns", 53, "udp") }

\* allocator_test.go TestAllocatePorts_ThreeEnvironmentsUnique
ThreeServiceBatch ==
    << PS("app", 3000, "tcp"), PS("db", 5432, "tcp"), PS("redis", 6379, "tcp") >>

BatchChoices == SeqsUpTo(SpecChoices, MaxBatch) \cup {ThreeServiceBatch}

IndexChoices == (0 - 1)..(maxWorktreeIndex + 1)

KnownChoices ==
    { <<>>,
      << PA("other-app", 3000, 13000, "tcp"), PA("other-web", 3000, 13001, "tcp") >>,
      << PA("other-dns", 53, 10053, "udp") >>,
      << PA("other-big", 60000, 49152, "tcp") >> }

BusyChoices ==
    { {},
      { BusyRange("tcp", 13001, 13001) },
      { BusyRange("tcp", 13000, 19999) },
      { BusyRange("tcp", 13000, 22999) },
      { BusyRange("tcp", 13000, 22999), BusyRange("tcp", 49152, 65535) } }

NoResult == [err |-> FALSE, allocs |-> <<>>, existing |-> <<>>]

AllocIdle ==
    /\ aPc = "off"
    /\ aIn = [ports |-> <<>>, index |-> 0, known |-> <<>>, busy |-> {}]
    /\ aOut = NoResult
    /\ aHist = <<>>

\* One run: NewAllocator, SetExistingAllocations(known), AllocatePorts(batch, index).
RunAllocate ==
    /\ aPc = "ready"
    /\ aOut' = AllocatePorts(aIn.known, aIn.busy, aIn.ports, aIn.index)
    /\ aHist' = Append(aHist, [index |-> aIn.index, known |-> aIn.known,
                               err |-> aOut'.err, allocs |-> aOut'.allocs])
    /\ aPc' = "done"
    /\ UNCHANGED <<aIn, lifeVars>>

\* The next environment: same batch, next index, the results so far known.
ChainNext ==
    /\ aPc = "done"
    /\ ~aOut.err
    /\ Len(aHist) < MaxChain
    /\ aIn.index < maxWorktreeIndex
    /\ aIn' = [aIn EXCEPT !.index = aIn.index + 1, !.known = aIn.known \o aOut.allocs]
    /\ aPc' = "ready"
    /\ UNCHANGED <<aOut, aHist, lifeVars>>

NextAlloc == RunAllocate \/ ChainNext

\* What a command reports: which command ran on which environment, what it
\* found on the host (foreign listeners, the daemon answering), its exit
\* code, and what it computed on the way.
NoLast ==
    [op |-> "none", name |-> <<>>, filter |-> "", ext |-> {}, up |-> TRUE,
     exit |-> 0, index |-> 0, conflicts |-> {},
     wrote |-> FALSE, launched |-> FALSE, listed |-> <<>>,
     force |-> FALSE, keepWorktree |-> FALSE, answer |-> ""]

\* The host before any command: no container, no worktree.
LifeEmpty ==
    /\ containers = <<>>
    /\ dirs = {}
    /\ gitWts = {}
    /\ wtFs = <<>>
    /\ clock = 0
    /\ last = NoLast

InitAlloc ==
    /\ aPc = "ready"
    /\ aIn \in [ports : BatchChoices, index : IndexChoices,
                 known : KnownChoices, busy : BusyChoices]
    /\ aOut = NoResult
    /\ aHist = <<>>
    /\ srcFs = <<>>
    /\ LifeEmpty

SpecAlloc == InitAlloc /\ [][NextAlloc]_vars

(***************************************************************************)
(* Allocator properties (checked under SpecAlloc)                           *)
(***************************************************************************)
AllocDone == aPc = "done" /\ ~aOut.err

\* protocol of a PortSpec as AllocatePorts defaults it
SpecProto(ps) == IF ps.protocol = "" THEN "tcp" ELSE ps.protocol

\* (hostPort, protocol) is in the caller's known set or among the first n
\* allocations of the returned batch
KnownBefore(n, hostPort, protocol) ==
    \/ \E k \in 1..Len(aIn.known) :
          aIn.known[k].hostPort = hostPort /\ aIn.known[k].protocol = protocol
    \/ \E k \in 1..n :
          aOut.allocs[k].hostPort = hostPort /\ aOut.allocs[k].protocol = protocol

\* C2: in every batch AllocatePorts returns, two distinct allocations of the
\* same protocol never have the same host port, also when several PortSpecs
\* ask for the same container port.
C2_IntraBatchUnique ==
    AllocDone =>
        \A i, j \in 1..Len(aOut.allocs) :
            (i # j /\ aOut.allocs[i].protocol = aOut.allocs[j].protocol)
                => aOut.allocs[i].hostPort # aOut.allocs[j].hostPort

\* C2 witness: a returned batch in which two PortSpecs asked for the same
\* container port under the same protocol.
C2_Witness ==
    /\ AllocDone
    /\ Len(aOut.allocs) = 2
    /\ aOut.allocs[1].containerPort = aOut.allocs[2].containerPort
    /\ aOut.allocs[1].protocol = aOut.allocs[2].protocol
    /\ aOut.allocs[1].hostPort # aOut.allocs[2].hostPort

\* C3: every returned host port was absent from the known set (the caller's
\* allocations plus the allocations made earlier in the batch) under its
\* protocol and was free at the OS for that protocol, whichever of the three
\* paths produced it.
C3_ReturnedPortsWereFree ==
    AllocDone =>
        \A i \in 1..Len(aOut.allocs) :
            LET a == aOut.allocs[i]
            IN  /\ a.protocol \in {"tcp", "udp"}
                /\ ~KnownBefore(i - 1, a.hostPort, a.protocol)
                /\ ~OsBusy(aIn.busy, a.hostPort, a.protocol)

\* C3 witness: the shifted candidate is in the known set, the next port is
\* bound by a foreign process, and the block scan returned a later port.
C3_Witness ==
    /\ AllocDone
    /\ Len(aOut.allocs) >= 1
    /\ aIn.index = 1
    /\ KnownBefore(0, 13000, "tcp")
    /\ OsBusy(aIn.busy, 13001, "tcp")
    /\ aOut.allocs[1].containerPort = 3000
    /\ aOut.allocs[1].hostPort = 13002

ThreeEnvironmentPorts ==
    {13000, 15432, 16379, 23000, 25432, 26379, 33000, 35432, 36379}

\* the run started from the three-service batch at index 1 with nothing
\* known and nothing bound, and three environments have been allocated
ThreeEnvironmentsRun ==
    /\ aPc = "done"
    /\ Len(aHist) = 3
    /\ aIn.ports = ThreeServiceBatch
    /\ aIn.busy = {}
    /\ aHist[1].index = 1
    /\ aHist[1].known = <<>>

\* C4: with an index in 1..9, when originalPort + index*10000 is at most
\* 65535 and has no conflict (not known for the protocol, free at the OS), the
\* host port returned is exactly that value; the three-service batch run at
\* indices 1, 2, 3 with the prior results known yields the nine expected ports.
C4_ShiftFormula ==
    /\ (aPc = "done" /\ aIn.index \in 1..maxWorktreeIndex) =>
          /\ \A i \in 1..Len(aOut.allocs) :
                LET cand == aIn.ports[i].containerPort + aIn.index * portShiftMultiplier
                    proto == SpecProto(aIn.ports[i])
                IN  (/\ cand <= maxPort
                     /\ ~KnownBefore(i - 1, cand, proto)
                     /\ proto \in {"tcp", "udp"}
                     /\ ~OsBusy(aIn.busy, cand, proto))
                    => aOut.allocs[i].hostPort = cand
          /\ (/\ Len(aIn.ports) = 1
              /\ aIn.ports[1].containerPort + aIn.index * portShiftMultiplier <= maxPort
              /\ ~KnownBefore(0, aIn.ports[1].containerPort
                                    + aIn.index * portShiftMultiplier, SpecProto(aIn.ports[1]))
              /\ ~OsBusy(aIn.busy, aIn.ports[1].containerPort
                                    + aIn.index * portShiftMultiplier, SpecProto(aIn.ports[1])))
             => (~aOut.err /\ Len(aOut.allocs) = 1)
    /\ ThreeEnvironmentsRun =>
          /\ \A k \in 1..3 : ~aHist[k].err /\ aHist[k].index = k
          /\ UNION { {aHist[k].allocs[i].hostPort : i \in 1..Len(aHist[k].allocs)}
                        : k \in 1..3 } = ThreeEnvironmentPorts

\* C4 witness: the three-environment run has completed.
C4_Witness ==
    /\ ThreeEnvironmentsRun
    /\ aHist[3].allocs[3].hostPort = 36379

\* (port, protocol) was available when allocation n of the batch was made
AvailableAt(n, port, protocol) ==
    /\ ~KnownBefore(n - 1, port, protocol)
    /\ ~OsBusy(aIn.busy, port, protocol)

\* the candidate of allocation n: the container port, shifted unless the
\* index is 0
Candidate(n) ==
    IF aIn.index = 0 THEN aIn.ports[n].containerPort
    ELSE aIn.ports[n].containerPort + aIn.index * portShiftMultiplier

\* C12 (as claimed): a successful AllocatePorts returns one allocation per
\* PortSpec in input order, with the service name and container port of the
\* PortSpec, a protocol of tcp or udp (tcp for an empty one), and a host port
\* within 1024..65535.
C12_OneAllocationPerSpec ==
    AllocDone =>
        /\ Len(aOut.allocs) = Len(aIn.ports)
        /\ \A i \in 1..Len(aOut.allocs) :
              /\ aOut.allocs[i].serviceName = aIn.ports[i].serviceName
              /\ aOut.allocs[i].containerPort = aIn.ports[i].containerPort
              /\ aOut.allocs[i].protocol = SpecProto(aIn.ports[i])
              /\ aOut.allocs[i].protocol \in {"tcp", "udp"}
              /\ aOut.allocs[i].hostPort \in 1024..maxPort

C14_BlockScanStaysInBlock ==
    AllocDone =>
        \A i \in 1..Len(aOut.allocs) :
            LET cand     == Candidate(i)
                proto    == aOut.allocs[i].protocol
                h        == aOut.allocs[i].hostPort
                blockTop == (cand \div portShiftMultiplier) * portShiftMultiplier
                               + portShiftMultiplier - 1
                blockEnd == IF blockTop > maxPort THEN maxPort ELSE blockTop
            IN  (cand <= maxPort /\ ~AvailableAt(i, cand, proto)) =>
                   IF \E p \in (cand + 1)..blockEnd : AvailableAt(i, p, proto)
                   THEN /\ h \in (cand + 1)..blockEnd
                        /\ AvailableAt(i, h, proto)
                        /\ \A q \in (cand + 1)..(h - 1) : ~AvailableAt(i, q, proto)
                   ELSE /\ h \in dynamicRangeStart..dynamicRangeEnd
                        /\ \A q \in dynamicRangeStart..(h - 1) : ~AvailableAt(i, q, proto)

(***************************************************************************)
(* Names and branches are sequences of one-character strings, so that      *)
(* sanitizeBranchName and ValidateName work on characters as the code does. *)
(***************************************************************************)
Letters == {"a", "b", "c", "d", "e", "f", "g", "h", "i", "j", "k", "l", "m",
            "n", "o", "p", "q", "r", "s", "t", "u", "v", "w", "x", "y", "z"}
Digits  == {"0", "1", "2", "3", "4", "5", "6", "7", "8", "9"}
Alnum   == Letters \cup Digits

\* strings.ReplaceAll(s, old, new) for one-character old and new
ReplaceAll(s, old, new) == [i \in 1..Len(s) |-> IF s[i] = old THEN new ELSE s[i]]

\* the strings.Builder loop of sanitizeBranchName: keep alphanumerics and "-"
KeepNameChars(s) == SelectSeq(s, LAMBDA c : c \in Alnum \/ c = "-")

\* strings.Trim(s, "-")
RECURSIVE TrimHyphens(_)
TrimHyphens(s) ==
    IF s = <<>> THEN s
    ELSE IF Head(s) = "-" THEN TrimHyphens(Tail(s))
    ELSE IF s[Len(s)] = "-" THEN TrimHyphens(SubSeq(s, 1, Len(s) - 1))
    ELSE s

\* create.go sanitizeBranchName
sanitizeBranchName(branch) ==
    LET name == TrimHyphens(KeepNameChars(
                    ReplaceAll(ReplaceAll(branch, "/", "-"), "_", "-")))
    IN  IF name = <<>> THEN <<"w", "o", "r", "k", "t", "r", "e", "e">> ELSE name

\* model.ValidateName: TRUE when the name is accepted (nameRegex)
ValidateName(name) ==
    /\ name # <<>>
    /\ name[1] \in Alnum
    /\ name[Len(name)] \in Alnum
    /\ \A i \in 1..Len(name) : name[i] \in Alnum \/ name[i] = "-"

(***************************************************************************)
(* internal/docker/label.go                                                 *)
(***************************************************************************)
ManagedByValue == "worktree-container"

TicksPerSecond == 2   \* the clock counts half seconds; labels keep whole seconds

\* time.Format(time.RFC3339): the text carries whole seconds only
FormatRFC3339(t) == t \div TicksPerSecond

\* time.Parse(time.RFC3339, s): the instant at the start of that second
ParseRFC3339(s) == s * TicksPerSecond

ConfigPatterns == {"image", "dockerfile", "compose-single", "compose-multi"}

\* ConfigPattern.IsCompose
IsCompose(pattern) == pattern \in {"compose-single", "compose-multi"}

\* The worktree.original-port.<N> entries of BuildLabels: a map keyed by the
\* container port, each assignment overwriting an earlier one with that key.
PortLabels(allocs) ==
    [cp \in {allocs[i].containerPort : i \in 1..Len(allocs)} |->
        LET lastIdx == CHOOSE i \in 1..Len(allocs) :
                          /\ allocs[i].containerPort = cp
                          /\ \A j \in (i + 1)..Len(allocs) : allocs[j].containerPort # cp
        IN  allocs[lastIdx].hostPort]

\* BuildLabels: the label map of an environment.  The port entries live in
\* the field ports; every other field is one label key.
BuildLabels(env) ==
    [managedBy     |-> ManagedByValue,
     name          |-> env.name,
     branch        |-> env.branch,
     worktreePath  |-> env.worktreePath,
     sourceRepo    |-> env.sourceRepoPath,
     configPattern |-> env.configPattern,
     createdAt     |-> FormatRFC3339(env.createdAt),
     ports         |-> PortLabels(env.portAllocations)]

\* The labels of a container that was created without the worktree labels.
NoLabels == [ports |-> <<>>]

Has(labels, key) == key \in DOMAIN labels

\* ParsePortLabels: one allocation per port label, protocol always tcp.  The
\* Go map is iterated in no fixed order, so the result is kept as a set.
ParsePortLabels(labels) ==
    {[serviceName |-> "", containerPort |-> cp, hostPort |-> labels.ports[cp],
      protocol |-> "tcp", label |-> ""] : cp \in DOMAIN labels.ports}

RequiredKeys == {"managedBy", "name", "branch", "worktreePath", "sourceRepo",
                 "configPattern", "createdAt"}

NoEnv == [name |-> <<>>, branch |-> <<>>, worktreePath |-> <<>>, sourceRepoPath |-> <<>>,
          configPattern |-> "", portAllocations |-> {}, createdAt |-> 0]

\* ParseLabels: the inverse of BuildLabels
ParseLabels(labels) ==
    IF \E k \in RequiredKeys : ~Has(labels, k) THEN [err |-> TRUE, env |-> NoEnv]
    ELSE IF labels.managedBy # ManagedByValue THEN [err |-> TRUE, env |-> NoEnv]
    ELSE IF labels.configPattern \notin ConfigPatterns THEN [err |-> TRUE, env |-> NoEnv]
    ELSE [err |-> FALSE,
          env |-> [name            |-> labels.name,
                   branch          |-> labels.branch,
                   worktreePath    |-> labels.worktreePath,
                   sourceRepoPath  |-> labels.sourceRepo,
                   configPattern   |-> labels.configPattern,
                   portAllocations |-> ParsePortLabels(labels),
                   createdAt       |-> ParseRFC3339(labels.createdAt)]]

(***************************************************************************)
(* internal/docker container.go: discovery and status                       *)
(***************************************************************************)
\* ListManagedContainers: the daemon's containers (stopped ones included)
\* that carry worktree.managed-by=worktree-container, in the daemon's order.
ListManagedContainers(cs) ==
    SelectSeq(cs, LAMBDA c : Has(c.labels, "managedBy")
                             /\ c.labels.managedBy = ManagedByValue)

\* GroupContainersByEnv: the keys of the map
GroupNames(managed) ==
    {managed[i].labels.name : i \in {j \in 1..Len(managed) :
        Has(managed[j].labels, "name") /\ managed[j].labels.name # <<>>}}

\* GroupContainersByEnv: the slice stored under one key
GroupOf(managed, envName) ==
    SelectSeq(managed, LAMBDA c : Has(c.labels, "name") /\ c.labels.name = envName)

\* determineStatus looking at the containers before the disk
determineStatusRunningFirst(group, worktreePath, onDisk) ==
    IF \E i \in 1..Len(group) : group[i].running THEN "running"
    ELSE IF worktreePath \notin onDisk THEN "orphaned"
    ELSE "stopped"

\* determineStatus
determineStatus(group, worktreePath, onDisk) ==
    IF worktreePath \notin onDisk THEN "orphaned"
    ELSE IF \E i \in 1..Len(group) : group[i].running THEN "running"
    ELSE "stopped"

\* BuildWorktreeEnv: metadata from the first container's labels, status
\* from all containers and the disk.
BuildWorktreeEnv(envName, group, onDisk) ==
    IF Len(group) = 0 THEN [err |-> TRUE, env |-> NoEnv, status |-> ""]
    ELSE LET parsed == ParseLabels(group[1].labels)
         IN  IF parsed.err THEN [err |-> TRUE, env |-> NoEnv, status |-> ""]
             ELSE [err |-> FALSE, env |-> parsed.env,
                   status |-> determineStatus(group, parsed.env.worktreePath, onDisk)]

(***************************************************************************)
(* internal/devcontainer: the parsed devcontainer.json                      *)
(*                                                                          *)
(* RawDevContainer is a record.  A forwardPorts or appPort item is          *)
(*   [kind |-> "num", port]             a JSON number                       *)
(*   [kind |-> "svc", service, port]    the string "service:port"           *)
(*   [kind |-> "map", host, port]       the string "host:container"         *)
(*   [kind |-> "str", port]             the string "port"                   *)
(*   [kind |-> "bad"]                   a string that is not a number       *)
(* dockerComposeFile and appPort carry the JSON type they were written in.  *)
(***************************************************************************)
Item(kind, service, host, port) ==
    [kind |-> kind, service |-> service, host |-> host, port |-> port]

\* model.PortSpec as ExtractPorts builds it (protocol is always "tcp")
PortSpec(service, containerPort, hostPort) ==
    [serviceName |-> service, containerPort |-> containerPort,
     hostPort |-> hostPort, protocol |-> "tcp", label |-> ""]

\* strconv.Itoa, as characters
RECURSIVE Itoa(_)
Itoa(n) ==
    LET digit(d) == <<"0", "1", "2", "3", "4", "5", "6", "7", "8", "9">>[d + 1]
    IN  IF n < 10 THEN <<digit(n)>> ELSE Append(Itoa(n \div 10), digit(n % 10))

\* parseServicePort: <<>> stands for the nil result
parseServicePort(item, defaultServiceName) ==
    CASE item.kind = "svc" -> << PortSpec(item.service, item.port, 0) >>
      [] item.kind = "map" -> << PortSpec(Itoa(item.host), item.port, 0) >>
      [] item.kind = "str" -> << PortSpec(defaultServiceName, item.port, 0) >>
      [] OTHER             -> <<>>

\* parseAppPortString
parseAppPortString(item, defaultServiceName) ==
    CASE item.kind = "map" -> << PortSpec(defaultServiceName, item.port, item.host) >>
      [] item.kind = "str" -> << PortSpec(defaultServiceName, item.port, 0) >>
      [] OTHER             -> <<>>

\* one element of forwardPorts
ForwardPortItem(item, defaultServiceName) ==
    IF item.kind = "num" THEN << PortSpec(defaultServiceName, item.port, 0) >>
    ELSE parseServicePort(item, defaultServiceName)

\* one element of appPort
AppPortItem(item, defaultServiceName) ==
    IF item.kind = "num" THEN << PortSpec(defaultServiceName, item.port, 0) >>
    ELSE parseAppPortString(item, defaultServiceName)

RECURSIVE FlatMap(_, _, _)
FlatMap(Op(_, _), items, arg) ==
    IF items = <<>> THEN <<>>
    ELSE Op(Head(items), arg) \o FlatMap(Op, Tail(items), arg)

\* parseAppPort
parseAppPort(appPort, defaultServiceName) ==
    CASE appPort.kind = "nil"    -> <<>>
      [] appPort.kind = "array"  -> FlatMap(AppPortItem, appPort.items, defaultServiceName)
      [] OTHER                   -> AppPortItem(appPort.items[1], defaultServiceName)

\* ExtractPorts: forwardPorts first, then appPort, then the labels of
\* portsAttributes
ExtractPorts(raw, defaultServiceName) ==
    LET ports == FlatMap(ForwardPortItem, raw.forwardPorts, defaultServiceName)
                     \o parseAppPort(raw.appPort, defaultServiceName)
    IN  [i \in 1..Len(ports) |->
            IF ports[i].containerPort \in DOMAIN raw.portsAttributes
            THEN [ports[i] EXCEPT !.label = raw.portsAttributes[ports[i].containerPort]]
            ELSE ports[i]]

\* GetComposeFiles
GetComposeFiles(raw) ==
    IF raw.dockerComposeFile.kind \in {"string", "array"}
    THEN raw.dockerComposeFile.files ELSE <<>>

\* countComposeServices
countComposeServices(raw) ==
    IF Len(raw.runServices) > 0 THEN Len(raw.runServices)
    ELSE IF raw.service # "" THEN 1
    ELSE 0

\* DetectPattern
DetectPattern(raw, composeServiceCount) ==
    IF raw.dockerComposeFile.kind # "nil"
    THEN IF composeServiceCount >= 2 THEN "compose-multi" ELSE "compose-single"
    ELSE IF raw.build THEN "dockerfile"
    ELSE "image"

(***************************************************************************)
(* The file system.  A file is named by the root it lives under (the        *)
(* source repository or a worktree), the directory below that root and its  *)
(* name; fs maps the files that exist to their contents.                    *)
(***************************************************************************)
RepoRoot == <<"repo">>

FileKey(root, dir, file) == [root |-> root, dir |-> dir, file |-> file]
DirKey(root, dir) == [root |-> root, dir |-> dir]

\* filepath.Join(worktreePath, ".devcontainer")
DevcontainerDir(root) == DirKey(root, ".devcontainer")

\* FindDevContainerJSON: .devcontainer/devcontainer.json first, then
\* .devcontainer.json in the project root
FindDevContainerJSON(fs, projectPath) ==
    LET inDir  == FileKey(projectPath, ".devcontainer", "devcontainer.json")
        atRoot == FileKey(projectPath, ".", ".devcontainer.json")
    IN  IF inDir \in DOMAIN fs THEN [err |-> FALSE, path |-> inDir]
        ELSE IF atRoot \in DOMAIN fs THEN [err |-> FALSE, path |-> atRoot]
        ELSE [err |-> TRUE, path |-> inDir]

\* WriteRewrittenConfig writing into the directory of the source file
WriteRewrittenConfigToSource(fs, outputPath, data) ==
    (FileKey(RepoRoot, outputPath.dir, outputPath.file) :> data) @@ fs

\* WriteRewrittenConfig: MkdirAll + WriteFile at outputPath
WriteRewrittenConfig(fs, outputPath, data) ==
    (outputPath :> data) @@ fs

\* WriteComposeOverride
WriteComposeOverride(fs, outputPath, data) ==
    WriteRewrittenConfig(fs, outputPath, data)

\* CopyDevContainerDir: every regular file below srcDir except
\* devcontainer.json is copied to the same relative name below dstDir
CopyDevContainerDir(fs, srcDir, dstDir) ==
    LET copied == {k \in DOMAIN fs : /\ k.root = srcDir.root
                                     /\ k.dir = srcDir.dir
                                     /\ k.file # "devcontainer.json"}
        dst(k) == FileKey(dstDir.root, dstDir.dir, k.file)
    IN  [d \in {dst(k) : k \in copied} |->
            fs[CHOOSE k \in copied : dst(k) = d]] @@ fs

(***************************************************************************)
(* internal/devcontainer: rewrite.go and compose.go                         *)
(***************************************************************************)
\* a docker compose file: the top-level name and, per service, the labels
\* and the published ports it declares
ComposeFile(name, services) == [kind |-> "compose", name |-> name, services |-> services]

\* GenerateComposeOverride
GenerateComposeOverride(envName, services, portAllocations, labels) ==
    ComposeFile(envName,
        [svc \in Range(services) |->
            [labels |-> labels,
             ports  |-> LET mine == SelectSeq(portAllocations,
                                              LAMBDA pa : pa.serviceName = svc)
                        IN  [i \in 1..Len(mine) |->
                                [host |-> mine[i].hostPort,
                                 container |-> mine[i].containerPort]]]])

\* appendComposeFile
appendComposeFile(existing, overridePath) ==
    LET files == IF existing.kind \in {"string", "array"} THEN existing.files ELSE <<>>
    IN  IF overridePath \in Range(files) THEN files ELSE Append(files, overridePath)

\* RewriteComposeConfig
RewriteComposeConfig(raw, envName, overrideYAMLPath) ==
    [raw EXCEPT !.name = envName,
                !.dockerComposeFile =
                    [kind |-> "array",
                     files |-> appendComposeFile(raw.dockerComposeFile, overrideYAMLPath)]]

\* applyAppPortShift
applyAppPortShift(portAllocations) ==
    IF Len(portAllocations) = 0 THEN [kind |-> "nil", items |-> <<>>]
    ELSE [kind |-> "array",
          items |-> [i \in 1..Len(portAllocations) |->
                        Item("map", "", portAllocations[i].hostPort,
                             portAllocations[i].containerPort)]]

\* applyPortsAttributesShift: keys that are allocated container ports become
\* the host port (the last allocation of a container port decides).  The old
\* map is visited in no fixed order; when two old keys get the same new key
\* the one visited later stays: the greater one when visit is "up", the
\* smaller one when it is "down".
applyPortsAttributesShift(attrs, portAllocations, visit) ==
    LET mapping == PortLabels(portAllocations)
        newKey(k) == IF k \in DOMAIN mapping THEN mapping[k] ELSE k
        from(n) == {k \in DOMAIN attrs : newKey(k) = n}
        later(n) == CHOOSE k \in from(n) :
                       \A j \in from(n) : IF visit = "up" THEN j <= k ELSE k <= j
    IN  [n \in {newKey(k) : k \in DOMAIN attrs} |-> attrs[later(n)]]

\* RewriteConfig that builds runArgs from the labels alone
RewriteConfigFreshRunArgs(raw, envName, worktreeIndex, portAllocations, labels, visit) ==
    [raw EXCEPT !.name = envName,
                !.runArgs = <<[flag |-> "--label", labels |-> labels]>>,
                !.appPort = applyAppPortShift(portAllocations),
                !.portsAttributes = applyPortsAttributesShift(raw.portsAttributes,
                                                              portAllocations, visit),
                !.containerEnv = [WORKTREE_NAME |-> envName,
                                  WORKTREE_INDEX |-> Itoa(worktreeIndex)]
                                     @@ raw.containerEnv]

\* RewriteConfig (patterns image and dockerfile): the parsed map with name,
\* runArgs (the --label pairs of all labels appended as one item), appPort,
\* portsAttributes and containerEnv replaced; visit is the order in which
\* the portsAttributes map happens to be visited
RewriteConfig(raw, envName, worktreeIndex, portAllocations, labels, visit) ==
    [raw EXCEPT !.name = envName,
                !.runArgs = Append(raw.runArgs, [flag |-> "--label", labels |-> labels]),
                !.appPort = applyAppPortShift(portAllocations),
                !.portsAttributes = applyPortsAttributesShift(raw.portsAttributes,
                                                              portAllocations, visit),
                !.containerEnv = [WORKTREE_NAME |-> envName,
                                  WORKTREE_INDEX |-> Itoa(worktreeIndex)]
                                     @@ raw.containerEnv]

(***************************************************************************)
(* The Docker daemon and docker compose, as the commands drive them.        *)
(*                                                                          *)
(* A container is [id, project, service, labels, running, publish]: the     *)
(* compose project and service it belongs to ("" outside compose), its      *)
(* labels (fixed when it is created), whether it runs, and the host TCP     *)
(* ports it publishes.  docker compose acts on the configuration it loads   *)
(* from the files it is given (or finds) in its working directory and on    *)
(* the project that configuration names, so what a ComposeUp / ComposeStop  *)
(* / ComposeDown call does follows from the arguments the code passes.      *)
(***************************************************************************)
\* the busy table the bind probe sees: foreign listeners plus the ports
\* published by running containers
HostBusy(cs, ext) ==
    ext \cup {BusyRange("tcp", p, p) :
                p \in UNION {cs[i].publish : i \in {j \in 1..Len(cs) : cs[j].running}}}

NewId(cs) ==
    IF cs = <<>> THEN 1
    ELSE 1 + (CHOOSE m \in {cs[i].id : i \in 1..Len(cs)} :
                 \A i \in 1..Len(cs) : cs[i].id <= m)

\* BindConflict that looks at foreign processes only: two containers may
\* then publish one host port
BindConflictForeignOnly(cs, ext, id, want) ==
    \E p \in want : OsBusy(ext, p, "tcp")

\* ports of want that a process other than container id holds
BindConflict(cs, ext, id, want) ==
    \E p \in want :
        \/ OsBusy(ext, p, "tcp")
        \/ \E i \in 1..Len(cs) : cs[i].id # id /\ cs[i].running /\ p \in cs[i].publish

\* A container carries dead when the daemon lists it and refuses the
\* requests on it (Docker's states dead and removing).
\* Client.StartContainer (ContainerStart): fails when a published port is taken
StartContainer(cs, ext, id) ==
    IF \E i \in 1..Len(cs) :
          /\ cs[i].id = id
          /\ \/ cs[i].dead
             \/ ~cs[i].running /\ BindConflict(cs, ext, id, cs[i].publish)
    THEN [err |-> TRUE, cs |-> cs]
    ELSE [err |-> FALSE,
          cs |-> [i \in 1..Len(cs) |->
                    IF cs[i].id = id THEN [cs[i] EXCEPT !.running = TRUE] ELSE cs[i]]]

\* StopContainer that reports no failure
StopContainerQuiet(cs, id) ==
    [err |-> FALSE,
     cs  |-> [i \in 1..Len(cs) |->
                IF cs[i].id = id /\ ~cs[i].dead
                THEN [cs[i] EXCEPT !.running = FALSE] ELSE cs[i]]]

\* Client.StopContainer (ContainerStop)
StopContainer(cs, id) ==
    [err |-> ~\E i \in 1..Len(cs) : cs[i].id = id /\ ~cs[i].dead,
     cs  |-> [i \in 1..Len(cs) |->
                IF cs[i].id = id /\ ~cs[i].dead THEN [cs[i] EXCEPT !.running = FALSE] ELSE cs[i]]]

\* Client.RemoveContainer (ContainerRemove, force)
RemoveContainer(cs, id) ==
    [err |-> ~\E i \in 1..Len(cs) : cs[i].id = id /\ ~cs[i].dead,
     cs  |-> SelectSeq(cs, LAMBDA c : c.id # id \/ c.dead)]

\* the files docker compose reads: the -f arguments, or docker-compose.yml
\* of the working directory when buildComposeArgs was given none
ComposeFileArgs(fs, projectDir, composeFiles) ==
    IF composeFiles # <<>> THEN composeFiles ELSE <<"docker-compose.yml">>

\* merging a later compose file over an earlier one
RECURSIVE MergeCompose(_, _, _, _)
MergeCompose(fs, projectDir, files, acc) ==
    IF files = <<>> THEN acc
    ELSE LET f == fs[FileKey(projectDir.root, projectDir.dir, Head(files))]
             merged ==
                ComposeFile(IF f.name # <<>> THEN f.name ELSE acc.name,
                    [svc \in DOMAIN acc.services \cup DOMAIN f.services |->
                        IF svc \notin DOMAIN f.services THEN acc.services[svc]
                        ELSE IF svc \notin DOMAIN acc.services THEN f.services[svc]
                        ELSE [labels |-> IF DOMAIN f.services[svc].labels = {"ports"}
                                         THEN acc.services[svc].labels
                                         ELSE f.services[svc].labels,
                              ports  |-> acc.services[svc].ports
                                            \o f.services[svc].ports]])
         IN  MergeCompose(fs, projectDir, Tail(files), merged)

\* the configuration a docker compose invocation loads; err when the
\* working directory or one of the files is missing
LoadCompose(fs, onDisk, projectDir, composeFiles) ==
    LET files == ComposeFileArgs(fs, projectDir, composeFiles)
    IN  IF \/ projectDir.root \notin onDisk
           \/ \E i \in 1..Len(files) :
                FileKey(projectDir.root, projectDir.dir, files[i]) \notin DOMAIN fs
        THEN [err |-> TRUE, config |-> ComposeFile(<<>>, <<>>)]
        ELSE [err |-> FALSE,
              config |-> MergeCompose(fs, projectDir, Tail(files),
                            fs[FileKey(projectDir.root, projectDir.dir, Head(files))])]

\* the project name docker compose derives from the directory .devcontainer
DirectoryProject(projectDir) ==
    IF projectDir.dir = ".devcontainer"
    THEN <<"d", "e", "v", "c", "o", "n", "t", "a", "i", "n", "e", "r">>
    ELSE projectDir.root

\* the project a docker compose invocation acts on: COMPOSE_PROJECT_NAME,
\* else the name of the loaded configuration, else the directory's name
ComposeProject(envVars, config, projectDir) ==
    IF "COMPOSE_PROJECT_NAME" \in DOMAIN envVars THEN envVars.COMPOSE_PROJECT_NAME
    ELSE IF config.name # <<>> THEN config.name
    ELSE DirectoryProject(projectDir)

\* os.Environ() of the command, and the nil map of extra variables
Environ == [PATH |-> <<"b", "i", "n">>]
NoVars == [k \in {} |-> <<>>]

\* docker compose starts services in name order here (no depends_on)
App == <<"a", "p", "p">>
Db  == <<"d", "b">>
ServiceOrder == <<App, Db>>

\* docker compose up -d for one service: an existing container of the
\* project and service is kept when its configuration is the one loaded and
\* replaced by a new container when it is not; the container is then
\* started, which fails when one of its published ports is taken
UpService(cs, ext, project, svc, want) ==
    LET publish == {want.ports[i].host : i \in 1..Len(want.ports)}
        same(c) == c.project = project /\ c.service = svc
        asIs(c) == same(c) /\ c.labels = want.labels /\ c.publish = publish
        kept    == SelectSeq(cs, LAMBDA c : ~same(c) \/ asIs(c))
        fresh   == [id |-> NewId(kept), project |-> project, service |-> svc,
                    labels |-> want.labels, running |-> FALSE, publish |-> publish,
                    dead |-> FALSE]
        present == IF \E i \in 1..Len(kept) : same(kept[i]) THEN kept
                   ELSE <<fresh>> \o kept
        id      == (CHOOSE c \in Range(present) : same(c)).id
    IN  StartContainer(present, ext, id)

RECURSIVE UpServices(_, _, _, _, _)
UpServices(cs, ext, project, config, order) ==
    IF order = <<>> THEN [err |-> FALSE, cs |-> cs]
    ELSE IF Head(order) \notin DOMAIN config.services
    THEN UpServices(cs, ext, project, config, Tail(order))
    ELSE LET r == UpService(cs, ext, project, Head(order), config.services[Head(order)])
         IN  IF r.err THEN r
             ELSE UpServices(r.cs, ext, project, config, Tail(order))

\* runCompose: docker compose runs in projectDir with os.Environ() plus
\* envVars; the result is the error and the daemon's containers afterwards
runCompose(h, projectDir, composeFiles, verb, envVars) ==
    LET loaded  == LoadCompose(h.fs, h.dirs, projectDir, composeFiles)
        project == ComposeProject(envVars @@ Environ, loaded.config, projectDir)
        mine(c) == c.project = project /\ c.service \in DOMAIN loaded.config.services
    IN  IF loaded.err \/ ~h.dockerUp THEN [err |-> TRUE, cs |-> h.containers]
        ELSE CASE verb = "up" ->
                    UpServices(h.containers, h.extBusy, project, loaded.config, ServiceOrder)
               [] verb = "stop" ->
                    [err |-> FALSE,
                     cs |-> [i \in 1..Len(h.containers) |->
                                IF mine(h.containers[i])
                                THEN [h.containers[i] EXCEPT !.running = FALSE]
                                ELSE h.containers[i]]]
               [] OTHER ->
                    [err |-> FALSE,
                     cs |-> SelectSeq(h.containers, LAMBDA c : ~mine(c))]

\* ComposeUp: docker compose [-f file]... up -d
ComposeUp(h, projectDir, composeFiles, envVars) ==
    runCompose(h, projectDir, composeFiles, "up", envVars)

\* ComposeStop: docker compose [-f file]... stop
ComposeStop(h, projectDir, composeFiles) ==
    runCompose(h, projectDir, composeFiles, "stop", NoVars)

\* ComposeDown: docker compose [-f file]... down -v
ComposeDown(h, projectDir, composeFiles) ==
    runCompose(h, projectDir, composeFiles, "down", NoVars)

(***************************************************************************)
(* internal/worktree: git worktree add / remove                             *)
(***************************************************************************)
\* Manager.Add: git refuses a path that exists or is still registered and a
\* branch that another worktree has checked out
GitAdd(h, branch, worktreePath) ==
    IF \/ worktreePath \in h.dirs
       \/ \E w \in h.gitWts : w.path = worktreePath \/ w.branch = branch
    THEN [err |-> TRUE, h |-> h]
    ELSE [err |-> FALSE,
          h |-> [h EXCEPT !.dirs = @ \cup {worktreePath},
                          !.gitWts = @ \cup {[path |-> worktreePath, branch |-> branch]}]]

\* Manager.Remove (--force): deletes the directory with everything below it
\* and the registration; fails when the path is not a worktree on disk
GitRemove(h, worktreePath) ==
    IF worktreePath \notin h.dirs \/ ~\E w \in h.gitWts : w.path = worktreePath
    THEN [err |-> TRUE, h |-> h]
    ELSE [err |-> FALSE,
          h |-> [h EXCEPT !.dirs = @ \ {worktreePath},
                          !.gitWts = {w \in @ : w.path # worktreePath},
                          !.fs = [k \in {x \in DOMAIN @ : x.root # worktreePath} |-> @[k]]]]

(***************************************************************************)
(* model: exit codes                                                        *)
(***************************************************************************)
ExitSuccess               == 0
ExitGeneralError          == 1
ExitDevContainerNotFound  == 2
ExitDockerNotRunning      == 3
ExitPortAllocationFailed  == 4
ExitGitError              == 5
ExitEnvNotFound           == 6
ExitUserCancelled         == 7

(***************************************************************************)
(* internal/cli: create                                                     *)
(*                                                                          *)
(* A command is an operator from the host h = [containers, dirs, gitWts,    *)
(* fs, extBusy, dockerUp, clock] to the host afterwards and the command's   *)
(* outcome; extBusy and dockerUp are what the command finds on the host.    *)
(***************************************************************************)
RECURSIVE SetToSeq(_)
SetToSeq(S) ==
    IF S = {} THEN <<>>
    ELSE LET x == CHOOSE y \in S : TRUE IN <<x>> \o SetToSeq(S \ {x})

\* the environments the daemon knows: the keys of GroupContainersByEnv
KnownEnvironments(h) == GroupNames(ListManagedContainers(h.containers))

\* determineWorktreeIndex counting the registered worktrees instead of the
\* environments the daemon knows
determineWorktreeIndexByWorktrees(h) ==
    IF ~h.dockerUp THEN [err |-> TRUE, index |-> 1]
    ELSE LET index == Cardinality(h.gitWts) + 1
         IN  IF index > 9 THEN [err |-> TRUE, index |-> 0]
             ELSE [err |-> FALSE, index |-> index]

\* determineWorktreeIndex
determineWorktreeIndex(h) ==
    IF ~h.dockerUp THEN [err |-> TRUE, index |-> 1]
    ELSE LET index == Cardinality(KnownEnvironments(h)) + 1
         IN  IF index > 9 THEN [err |-> TRUE, index |-> 0]
             ELSE [err |-> FALSE, index |-> index]

\* loadExistingAllocations returning nothing
loadNoExistingAllocations(h) == [err |-> FALSE, allocs |-> <<>>]

\* loadExistingAllocations: the port labels of every managed container
loadExistingAllocations(h) ==
    IF ~h.dockerUp THEN [err |-> TRUE, allocs |-> <<>>]
    ELSE LET managed == ListManagedContainers(h.containers)
             each(c, none) == SetToSeq(ParsePortLabels(c.labels))
         IN  [err |-> FALSE, allocs |-> FlatMap(each, managed, 0)]

\* runDevcontainerUp
runDevcontainerUp(h, workspaceFolder) ==
    ComposeUp(h, workspaceFolder, <<>>, NoVars)

\* startContainers: err carries the exit code (0 when it succeeded)
startContainers(h, pattern, devcontainerDir, composeFiles, envName) ==
    LET r == IF IsCompose(pattern)
             THEN ComposeUp(h, devcontainerDir,
                            Append(composeFiles, "docker-compose.worktree.yml"),
                            [COMPOSE_PROJECT_NAME |-> envName])
             ELSE runDevcontainerUp(h, DirKey(devcontainerDir.root, "."))
    IN  [exit |-> IF r.err THEN ExitDockerNotRunning ELSE ExitSuccess, cs |-> r.cs]

\* runCreate, when the daemon's answers it selects the ports from (the
\* environments counted, the labels read, the ports probed) are those of the
\* host seen, and it writes and launches on the host h
runCreateSeen(h, seen, cwdInRepo, branchName, flags) ==
    LET out0 == [NoLast EXCEPT !.op = "create", !.ext = h.extBusy, !.up = h.dockerUp]
        envName == IF flags.name = <<>> THEN sanitizeBranchName(branchName)
                   ELSE flags.name
        worktreePath == IF flags.path = <<>> THEN RepoRoot \o <<"-">> \o envName
                        ELSE flags.path
        out1 == [out0 EXCEPT !.name = envName]
        added == GitAdd(h, branchName, worktreePath)
        h1 == added.h
        found == FindDevContainerJSON(h1.fs, RepoRoot)
        rawConfig == h1.fs[found.path]
        composeFiles == GetComposeFiles(rawConfig)
        composeServiceCount == IF Len(composeFiles) > 0
                               THEN countComposeServices(rawConfig) ELSE 0
        pattern == DetectPattern(rawConfig, composeServiceCount)
        defaultServiceName == IF rawConfig.service # <<>> THEN rawConfig.service
                              ELSE envName
        originalPorts == ExtractPorts(rawConfig, defaultServiceName)
        determined == determineWorktreeIndex(seen)
        worktreeIndex == IF determined.err THEN 1 ELSE determined.index
        loaded == loadExistingAllocations(seen)
        existingAllocs == IF loaded.err THEN <<>> ELSE loaded.allocs
        allocated == AllocatePorts(existingAllocs, HostBusy(seen.containers, seen.extBusy),
                                   originalPorts, worktreeIndex)
        out2 == [out1 EXCEPT !.index = worktreeIndex]
        env == [name |-> envName, branch |-> branchName, worktreePath |-> worktreePath,
                sourceRepoPath |-> RepoRoot, configPattern |-> pattern,
                portAllocations |-> allocated.allocs, createdAt |-> h1.clock]
        labels == BuildLabels(env)
        srcDevcontainerDir == DirKey(found.path.root, found.path.dir)
        dstDevcontainerDir == DevcontainerDir(worktreePath)
        dstFile(name) == FileKey(dstDevcontainerDir.root, dstDevcontainerDir.dir, name)
        copied == CopyDevContainerDir(h1.fs, srcDevcontainerDir, dstDevcontainerDir)
        services == IF Len(rawConfig.runServices) = 0 /\ rawConfig.service # <<>>
                    THEN <<rawConfig.service>> ELSE rawConfig.runServices
        written ==
            IF IsCompose(pattern)
            THEN WriteRewrittenConfig(
                    WriteComposeOverride(copied, dstFile("docker-compose.worktree.yml"),
                        GenerateComposeOverride(envName, services, allocated.allocs, labels)),
                    dstFile("devcontainer.json"),
                    RewriteComposeConfig(rawConfig, envName, "docker-compose.worktree.yml"))
            ELSE WriteRewrittenConfig(copied, dstFile("devcontainer.json"),
                    RewriteConfig(rawConfig, envName, worktreeIndex,
                                  allocated.allocs, labels, "up"))
        h2 == [h1 EXCEPT !.fs = written, !.clock = @ + 1]
        out3 == [out2 EXCEPT !.wrote = TRUE]
        started == startContainers(h2, pattern, dstDevcontainerDir, composeFiles, envName)
    IN  IF ~cwdInRepo THEN [h |-> h, out |-> [out0 EXCEPT !.exit = ExitGitError]]
        ELSE IF ~ValidateName(envName)
        THEN [h |-> h, out |-> [out0 EXCEPT !.name = envName, !.exit = ExitGeneralError]]
        ELSE IF added.err THEN [h |-> h, out |-> [out1 EXCEPT !.exit = ExitGitError]]
        ELSE IF found.err
        THEN [h |-> h1, out |-> [out1 EXCEPT !.exit = ExitDevContainerNotFound]]
        ELSE IF allocated.err
        THEN [h |-> h1, out |-> [out2 EXCEPT !.exit = ExitPortAllocationFailed]]
        ELSE IF flags.noStart THEN [h |-> h2, out |-> out3]
        ELSE [h |-> [h2 EXCEPT !.containers = started.cs],
              out |-> [out3 EXCEPT !.launched = TRUE, !.exit = started.exit]]

\* runCreate: nothing else acts on the host while the command runs
runCreate(h, cwdInRepo, branchName, flags) ==
    runCreateSeen(h, h, cwdInRepo, branchName, flags)

(***************************************************************************)
(* internal/cli: start, stop, remove, list                                  *)
(***************************************************************************)
\* findEnvironment without the lookup failure: an unknown name yields an
\* empty environment
findEnvironmentNoLookup(h, envName) ==
    LET managed == ListManagedContainers(h.containers)
        group   == GroupOf(managed, envName)
        built   == BuildWorktreeEnv(envName, group, h.dirs)
    IN  IF ~h.dockerUp
        THEN [exit |-> ExitDockerNotRunning, env |-> NoEnv, group |-> <<>>]
        ELSE IF envName \notin GroupNames(managed)
        THEN [exit |-> ExitSuccess, env |-> NoEnv, group |-> <<>>]
        ELSE IF built.err
        THEN [exit |-> ExitGeneralError, env |-> NoEnv, group |-> <<>>]
        ELSE [exit |-> ExitSuccess, env |-> built.env, group |-> group]

\* findEnvironment: exit is 0 when the environment was found and parsed
findEnvironment(h, envName) ==
    LET managed == ListManagedContainers(h.containers)
        group   == GroupOf(managed, envName)
        built   == BuildWorktreeEnv(envName, group, h.dirs)
    IN  IF ~h.dockerUp
        THEN [exit |-> ExitDockerNotRunning, env |-> NoEnv, group |-> <<>>]
        ELSE IF envName \notin GroupNames(managed)
        THEN [exit |-> ExitEnvNotFound, env |-> NoEnv, group |-> <<>>]
        ELSE IF built.err
        THEN [exit |-> ExitGeneralError, env |-> NoEnv, group |-> <<>>]
        ELSE [exit |-> ExitSuccess, env |-> built.env, group |-> group]

\* the loops of runStart / runStop / runRemove over the group's containers:
\* the first failure ends the loop
RECURSIVE EachContainer(_, _, _)
EachContainer(Op(_, _), cs, group) ==
    IF group = <<>> THEN [err |-> FALSE, cs |-> cs]
    ELSE LET r == Op(cs, Head(group).id)
         IN  IF r.err THEN r ELSE EachContainer(Op, r.cs, Tail(group))

\* the probe loop of runStart seeing only the ports of foreign processes
ConflictingPortsForeignOnly(h, env) ==
    {pa.hostPort : pa \in {a \in env.portAllocations :
        ~IsPortAvailable(h.extBusy, a.hostPort, a.protocol)}}

\* the probe loop of runStart
ConflictingPorts(h, env) ==
    {pa.hostPort : pa \in {a \in env.portAllocations :
        ~IsPortAvailable(HostBusy(h.containers, h.extBusy), a.hostPort, a.protocol)}}

\* runStart without the port probe
runStartNoProbe(h, envName) ==
    LET f == findEnvironment(h, envName)
        out0 == [NoLast EXCEPT !.op = "start", !.name = envName,
                               !.ext = h.extBusy, !.up = h.dockerUp]
        start(cs, id) == StartContainer(cs, h.extBusy, id)
        started == IF IsCompose(f.env.configPattern)
                   THEN ComposeUp(h, DevcontainerDir(f.env.worktreePath), <<>>,
                                  [COMPOSE_PROJECT_NAME |-> envName])
                   ELSE EachContainer(start, h.containers, f.group)
    IN  IF f.exit # ExitSuccess THEN [h |-> h, out |-> [out0 EXCEPT !.exit = f.exit]]
        ELSE [h |-> [h EXCEPT !.containers = started.cs],
              out |-> [out0 EXCEPT !.launched = TRUE,
                          !.exit = IF started.err THEN ExitGeneralError ELSE ExitSuccess]]

\* runStart
runStart(h, envName) ==
    LET f == findEnvironment(h, envName)
        out0 == [NoLast EXCEPT !.op = "start", !.name = envName,
                               !.ext = h.extBusy, !.up = h.dockerUp]
        conflictingPorts == ConflictingPorts(h, f.env)
        start(cs, id) == StartContainer(cs, h.extBusy, id)
        started == IF IsCompose(f.env.configPattern)
                   THEN ComposeUp(h, DevcontainerDir(f.env.worktreePath), <<>>,
                                  [COMPOSE_PROJECT_NAME |-> envName])
                   ELSE EachContainer(start, h.containers, f.group)
    IN  IF f.exit # ExitSuccess THEN [h |-> h, out |-> [out0 EXCEPT !.exit = f.exit]]
        ELSE IF conflictingPorts # {}
        THEN [h |-> h, out |-> [out0 EXCEPT !.exit = ExitPortAllocationFailed,
                                            !.conflicts = conflictingPorts]]
        ELSE [h |-> [h EXCEPT !.containers = started.cs],
              out |-> [out0 EXCEPT !.launched = TRUE,
                          !.exit = IF started.err THEN ExitGeneralError ELSE ExitSuccess]]

\* runStop
runStop(h, envName) ==
    LET f == findEnvironment(h, envName)
        out0 == [NoLast EXCEPT !.op = "stop", !.name = envName, !.up = h.dockerUp]
        stopped == IF IsCompose(f.env.configPattern)
                   THEN ComposeStop(h, DevcontainerDir(f.env.worktreePath), <<>>)
                   ELSE EachContainer(StopContainer, h.containers, f.group)
    IN  IF f.exit # ExitSuccess THEN [h |-> h, out |-> [out0 EXCEPT !.exit = f.exit]]
        ELSE [h |-> [h EXCEPT !.containers = stopped.cs],
              out |-> [out0 EXCEPT
                          !.exit = IF stopped.err THEN ExitGeneralError ELSE ExitSuccess]]

\* promptConfirmation taking the end of input for consent
promptConfirmationEofYes(answer) ==
    IF answer = "err" THEN [err |-> TRUE, confirmed |-> FALSE]
    ELSE [err |-> FALSE, confirmed |-> answer \in {"y", "yes", "eof"}]

\* promptConfirmation: answer is the line read from stdin, lower-cased and
\* trimmed, "eof" when stdin is at its end, "err" when reading fails
promptConfirmation(answer) ==
    IF answer = "err" THEN [err |-> TRUE, confirmed |-> FALSE]
    ELSE [err |-> FALSE, confirmed |-> answer \in {"y", "yes"}]

\* runRemove; the flags and the answer are reported once the environment has
\* been found, the answer only when the prompt was shown
runRemove(h, envName, flags, answer) ==
    LET f == findEnvironment(h, envName)
        out0 == [NoLast EXCEPT !.op = "remove", !.name = envName, !.up = h.dockerUp]
        out1 == [out0 EXCEPT !.force = flags.force,
                             !.keepWorktree = flags.keepWorktree,
                             !.answer = IF flags.force THEN "" ELSE answer]
        prompt == promptConfirmation(answer)
        removed == IF IsCompose(f.env.configPattern)
                   THEN ComposeDown(h, DevcontainerDir(f.env.worktreePath), <<>>)
                   ELSE EachContainer(RemoveContainer, h.containers, f.group)
        h1 == [h EXCEPT !.containers = removed.cs]
        gone == GitRemove(h1, f.env.worktreePath)
    IN  IF f.exit # ExitSuccess THEN [h |-> h, out |-> [out0 EXCEPT !.exit = f.exit]]
        ELSE IF ~flags.force /\ prompt.err
        THEN [h |-> h, out |-> [out1 EXCEPT !.exit = ExitGeneralError]]
        ELSE IF ~flags.force /\ ~prompt.confirmed
        THEN [h |-> h, out |-> [out1 EXCEPT !.exit = ExitUserCancelled]]
        ELSE IF removed.err
        THEN [h |-> h1, out |-> [out1 EXCEPT !.exit = ExitGeneralError]]
        ELSE IF flags.keepWorktree THEN [h |-> h1, out |-> out1]
        ELSE IF gone.err /\ f.env.worktreePath \in h1.dirs
        THEN [h |-> h1, out |-> [out1 EXCEPT !.exit = ExitGitError]]
        ELSE [h |-> gone.h, out |-> out1]

StatusFilters == {"running", "stopped", "orphaned", "all"}

\* strings.ToLower on the --status values: a value written with capitals
\* becomes its lower-case spelling, every other value is left as it is
ToLower(s) ==
    CASE s = "Running"  -> "running"
      [] s = "STOPPED"  -> "stopped"
      [] s = "ALL"      -> "all"
      [] OTHER          -> s

\* WorktreeStatus.IsValid
IsValid(status) == status \in {"running", "stopped", "orphaned"}

\* ParseWorktreeStatus
ParseWorktreeStatus(s) ==
    IF ~IsValid(ToLower(s)) THEN [err |-> TRUE, status |-> ""]
    ELSE [err |-> FALSE, status |-> ToLower(s)]

\* the bytes of the characters names are written with, in ascending order
Alphabet ==
    <<"-", ".", "/", "0", "1", "2", "3", "4", "5", "6", "7", "8", "9", "_",
      "a", "b", "c", "d", "e", "f", "g", "h", "i", "j", "k", "l", "m",
      "n", "o", "p", "q", "r", "s", "t", "u", "v", "w", "x", "y", "z">>

CharCode(ch) == CHOOSE i \in 1..Len(Alphabet) : Alphabet[i] = ch

\* a < b on Go strings: byte by byte, a proper prefix first
RECURSIVE StringLess(_, _)
StringLess(a, b) ==
    IF b = <<>> THEN FALSE
    ELSE IF a = <<>> THEN TRUE
    ELSE IF Head(a) # Head(b) THEN CharCode(Head(a)) < CharCode(Head(b))
    ELSE StringLess(Tail(a), Tail(b))

\* sort.Slice(envs, Name[i] < Name[j]) on the environments built from the
\* map of groups (one per name, visited in no fixed order)
RECURSIVE sortByName(_)
sortByName(names) ==
    IF names = {} THEN <<>>
    ELSE LET first == CHOOSE n \in names : \A m \in names \ {n} : StringLess(n, m)
         IN  <<first>> \o sortByName(names \ {first})

\* runList: listed is the sequence of (environment, status) rows printed
runList(h, statusFilter) ==
    LET out0 == [NoLast EXCEPT !.op = "list", !.filter = statusFilter, !.up = h.dockerUp]
        managed == ListManagedContainers(h.containers)
        envs == sortByName({m \in GroupNames(managed) :
                                ~BuildWorktreeEnv(m, GroupOf(managed, m), h.dirs).err})
        rows == [i \in 1..Len(envs) |->
                    [name |-> envs[i],
                     status |-> BuildWorktreeEnv(envs[i], GroupOf(managed, envs[i]),
                                                 h.dirs).status]]
    IN  IF statusFilter # "all" /\ ParseWorktreeStatus(statusFilter).err
        THEN [h |-> h, out |-> [out0 EXCEPT !.exit = ExitGeneralError]]
        ELSE IF ~h.dockerUp
        THEN [h |-> h, out |-> [out0 EXCEPT !.exit = ExitDockerNotRunning]]
        ELSE [h |-> h,
              out |-> [out0 EXCEPT !.listed =
                          IF statusFilter = "all" THEN rows
                          ELSE SelectSeq(rows, LAMBDA r : r.status = statusFilter)]]

(***************************************************************************)
(* The source repositories the commands are run in                          *)
(***************************************************************************)
RawEmpty ==
    [name |-> <<"p">>, image |-> "", build |-> FALSE,
     dockerComposeFile |-> [kind |-> "nil", files |-> <<>>],
     service |-> <<>>, runServices |-> <<>>,
     forwardPorts |-> <<>>, appPort |-> [kind |-> "nil", items |-> <<>>],
     portsAttributes |-> <<>>, runArgs |-> <<>>, containerEnv |-> NoVars]

\* one service, one forwarded port
RawComposeSingle ==
    [RawEmpty EXCEPT
        !.dockerComposeFile = [kind |-> "string", files |-> <<"docker-compose.yml">>],
        !.service = App,
        !.forwardPorts = << Item("num", <<>>, 0, 3000) >>]

\* two services, one port each
RawComposeMulti ==
    [RawEmpty EXCEPT
        !.dockerComposeFile = [kind |-> "array", files |-> <<"docker-compose.yml">>],
        !.service = App,
        !.runServices = <<App, Db>>,
        !.forwardPorts = << Item("num", <<>>, 0, 3000), Item("svc", Db, 0, 5432) >>]

\* an image; forwardPorts and appPort "3000:3000" both name container port 3000
RawImage ==
    [RawEmpty EXCEPT
        !.image = "node",
        !.forwardPorts = << Item("num", <<>>, 0, 3000) >>,
        !.appPort = [kind |-> "string", items |-> << Item("map", <<>>, 3000, 3000) >>]]

BaseCompose(services) ==
    ComposeFile(<<>>, [svc \in services |-> [labels |-> NoLabels, ports |-> <<>>]])

SourceFile(name) == FileKey(RepoRoot, ".devcontainer", name)

ComposeSingleSource ==
    (SourceFile("devcontainer.json") :> RawComposeSingle)
        @@ (SourceFile("docker-compose.yml") :> BaseCompose({App}))

SourceChoices ==
    {      (SourceFile("devcontainer.json") :> RawComposeMulti)
        @@ (SourceFile("docker-compose.yml") :> BaseCompose({App, Db})),
      (SourceFile("devcontainer.json") :> RawImage)
        @@ (SourceFile("setup.sh") :> [kind |-> "text"]),
      [k \in {} |-> RawEmpty] }

(***************************************************************************)
(* Spec: the commands and the host's events                                 *)
(***************************************************************************)
MaxClock == 2      \* creates per behaviour that get as far as time.Now()

Flags(name, path, noStart) == [name |-> name, path |-> path, noStart |-> noStart]

\* the create invocations tried: [cwdInRepo, branch, flags]
CreateChoices ==
    { [cwdInRepo |-> TRUE,  branch |-> <<"f", "/", "a">>, flags |-> Flags(<<>>, <<>>, FALSE)],
      [cwdInRepo |-> TRUE,  branch |-> <<"f", "/", "a">>, flags |-> Flags(<<>>, <<>>, TRUE)],
      [cwdInRepo |-> TRUE,  branch |-> <<"f", "-", "a">>, flags |-> Flags(<<>>, <<"w">>, FALSE)],
      [cwdInRepo |-> TRUE,  branch |-> <<"b">>,           flags |-> Flags(<<>>, <<>>, FALSE)],
      [cwdInRepo |-> TRUE,  branch |-> <<"b">>,           flags |-> Flags(<<"-">>, <<>>, FALSE)],
      [cwdInRepo |-> FALSE, branch |-> <<"b">>,           flags |-> Flags(<<>>, <<>>, FALSE)] }

EnvNames      == { <<"f", "-", "a">>, <<"b">>, <<"e", "1">> }
ListFilters   == { "all", "running", "bogus" }
RemoveChoices ==
    { [force |-> TRUE,  keepWorktree |-> FALSE, answer |-> "eof"],
      [force |-> FALSE, keepWorktree |-> TRUE,  answer |-> "yes"],
      [force |-> FALSE, keepWorktree |-> FALSE, answer |-> "n"],
      [force |-> FALSE, keepWorktree |-> FALSE, answer |-> "eof"],
      [force |-> FALSE, keepWorktree |-> FALSE, answer |-> "err"] }

\* what foreign processes may hold when a command runs: nothing, or a port
\* that no running container has published
ExtPorts == { 13000 }
ExtChoices ==
    {{}} \cup {{BusyRange("tcp", p, p)} :
                p \in {q \in ExtPorts : ~OsBusy(HostBusy(containers, {}), q, "tcp")}}

Host(ext, up) ==
    [containers |-> containers, dirs |-> dirs, gitWts |-> gitWts,
     fs |-> srcFs @@ wtFs, extBusy |-> ext, dockerUp |-> up, clock |-> clock]

\* A command runs from the prompt; the host afterwards, and what the command
\* reported
Becomes(r) ==
    /\ last = NoLast
    /\ containers' = r.h.containers
    /\ dirs' = r.h.dirs
    /\ gitWts' = r.h.gitWts
    /\ srcFs' = [k \in {x \in DOMAIN r.h.fs : x.root = RepoRoot} |-> r.h.fs[k]]
    /\ wtFs' = [k \in {x \in DOMAIN r.h.fs : x.root # RepoRoot} |-> r.h.fs[k]]
    /\ clock' = r.h.clock
    /\ last' = r.out
    /\ UNCHANGED allocVars

Create ==
    /\ clock < MaxClock
    /\ \E c \in CreateChoices, up \in BOOLEAN :
          Becomes(runCreate(Host({}, up), c.cwdInRepo, c.branch, c.flags))

Start ==
    \E name \in EnvNames, ext \in ExtChoices, up \in BOOLEAN :
        Becomes(runStart(Host(ext, up), name))

Stop ==
    \E name \in EnvNames, up \in BOOLEAN :
        Becomes(runStop(Host({}, up), name))

Remove ==
    \E name \in EnvNames, c \in RemoveChoices, up \in BOOLEAN :
        Becomes(runRemove(Host({}, up), name,
                          [force |-> c.force, keepWorktree |-> c.keepWorktree], c.answer))

List ==
    \E filter \in ListFilters, up \in BOOLEAN :
        Becomes(runList(Host({}, up), filter))

\* the command has exited; back at the prompt
Return ==
    /\ last # NoLast
    /\ last' = NoLast
    /\ UNCHANGED <<containers, dirs, gitWts, srcFs, wtFs, clock, allocVars>>

\* a container's main process ends (followed for the environments the
\* commands name)
ContainerExit ==
    /\ last = NoLast
    /\ \E i \in 1..Len(containers) :
          /\ containers[i].project \in EnvNames
          /\ containers[i].running
          /\ containers' = [containers EXCEPT ![i].running = FALSE]
    /\ UNCHANGED <<dirs, gitWts, srcFs, wtFs, clock, last, allocVars>>

Init ==
    /\ AllocIdle
    /\ srcFs \in SourceChoices
    /\ LifeEmpty

Next ==
    \/ Create \/ Start \/ Stop \/ Remove \/ List \/ Return
    \/ ContainerExit

Spec == Init /\ [][Next]_vars

(***************************************************************************)
(* SpecFull: a host on which environments e1, e2, ... already exist, each   *)
(* made by runCreate from the one-service compose repository                *)
(***************************************************************************)
PrebuiltCounts == {9}

EmptyHost ==
    [containers |-> <<>>, dirs |-> {}, gitWts |-> {}, fs |-> ComposeSingleSource,
     extBusy |-> {}, dockerUp |-> TRUE, clock |-> 0]

RECURSIVE Prebuilt(_)
Prebuilt(n) ==
    IF n = 0 THEN EmptyHost
    ELSE CHOOSE after \in
             {[runCreate(before, TRUE, <<"e">> \o Itoa(n),
                         Flags(<<>>, <<>>, FALSE)).h EXCEPT !.clock = 0] :
                 before \in {Prebuilt(n - 1)}} : TRUE

InitFull ==
    /\ AllocIdle
    /\ \E n \in PrebuiltCounts : \E h \in {Prebuilt(n)} :
          /\ containers = h.containers
          /\ dirs = h.dirs
          /\ gitWts = h.gitWts
          /\ srcFs = [k \in {x \in DOMAIN h.fs : x.root = RepoRoot} |-> h.fs[k]]
          /\ wtFs = [k \in {x \in DOMAIN h.fs : x.root # RepoRoot} |-> h.fs[k]]
    /\ clock = 0
    /\ last = NoLast

\* the create invocations tried on the full host
FullCreateChoices ==
    { [cwdInRepo |-> TRUE, branch |-> <<"b">>,           flags |-> Flags(<<>>, <<>>, FALSE)],
      [cwdInRepo |-> TRUE, branch |-> <<"f", "/", "a">>, flags |-> Flags(<<>>, <<>>, TRUE)] }

CreateFull ==
    /\ clock < MaxClock
    /\ \E c \in FullCreateChoices, up \in BOOLEAN :
          Becomes(runCreate(Host({}, up), c.cwdInRepo, c.branch, c.flags))

NextFull ==
    \/ CreateFull \/ Start \/ Stop \/ Remove \/ List \/ Return
    \/ ContainerExit

SpecFull == InitFull /\ [][NextFull]_vars

(***************************************************************************)
(* Lifecycle properties                                                     *)
(***************************************************************************)
\* a container that carries the managed-by label and a name
IsManaged(c) ==
    /\ "managedBy" \in DOMAIN c.labels
    /\ c.labels.managedBy = ManagedByValue
    /\ "name" \in DOMAIN c.labels

ManagedNow == {containers[i] : i \in {j \in 1..Len(containers) : IsManaged(containers[j])}}

NamesNow == {c.labels.name : c \in ManagedNow}

\* the host ports recorded in a container's port labels
LabelPorts(c) == {c.labels.ports[cp] : cp \in DOMAIN c.labels.ports}

\* the labels an environment is reconstructed from: those of the first
\* container the daemon lists for it
FirstOf(name) ==
    containers[CHOOSE i \in 1..Len(containers) :
                  /\ IsManaged(containers[i]) /\ containers[i].labels.name = name
                  /\ \A j \in 1..(i - 1) :
                        ~(IsManaged(containers[j]) /\ containers[j].labels.name = name)]

\* a step in which the command op runs
CommandStep(op) == last = NoLast /\ last'.op = op

\* C1: any two distinct environments reconstructed from the labels of the
\* managed containers (running or stopped) have no host port in common (the
\* reconstructed protocol is always tcp), after any sequence of commands.
C1_HostPortsUniqueAcrossEnvironments ==
    \A a, b \in ManagedNow :
        a.labels.name # b.labels.name => LabelPorts(a) \cap LabelPorts(b) = {}

\* C1 witness: a create that ran with index 1 while another environment
\* already held port 13000 in its labels, and took the next port.
C1_Witness ==
    /\ last.op = "create" /\ last.exit = ExitSuccess /\ last.index = 1
    /\ \E a, b \in ManagedNow :
          /\ a.labels.name # b.labels.name
          /\ a.labels.name = last.name
          /\ 13000 \in LabelPorts(b)
          /\ 13001 \in LabelPorts(a)

\* C5 (as claimed): create uses index = known environments + 1; when that
\* exceeds 9 it exits 4 without writing configuration or launching; no create
\* proceeds with an index outside 1..9.
C5_IndexCapStopsCreate ==
    [][(CommandStep("create") /\ last'.up /\ last'.index # 0) =>
          LET count == Cardinality(NamesNow)
          IN  /\ count + 1 <= 9 => last'.index = count + 1
              /\ count + 1 > 9 =>
                    /\ last'.exit = ExitPortAllocationFailed
                    /\ ~last'.wrote /\ ~last'.launched
                    /\ wtFs' = wtFs /\ containers' = containers
              /\ last'.index \in 1..9]_vars

\* C6: start probes every port allocation of the environment before it
\* starts anything: when at least one is unavailable it exits 4, reports
\* exactly the unavailable ports, and no container changes.
C6_StartProbesAllPortsFirst ==
    [][(CommandStep("start") /\ last'.up /\ last'.name \in NamesNow) =>
          LET busy(p) == \/ OsBusy(last'.ext, p, "tcp")
                         \/ \E c \in Range(containers) : c.running /\ p \in c.publish
              unavailable == {p \in LabelPorts(FirstOf(last'.name)) : busy(p)}
          IN  /\ unavailable # {} =>
                    /\ last'.exit = ExitPortAllocationFailed
                    /\ last'.conflicts = unavailable
                    /\ ~last'.launched
                    /\ containers' = containers
              /\ unavailable = {} => last'.exit # ExitPortAllocationFailed]_vars

\* C6 witness: a start that found both ports of a two-port environment taken.
C6_Witness ==
    /\ last.op = "start"
    /\ last.exit = ExitPortAllocationFailed
    /\ Cardinality(last.conflicts) = 2

\* C7: for every listed environment the status is orphaned exactly when the
\* worktree path of its labels is not on disk (whatever runs); otherwise it
\* is running exactly when some container of the group runs; otherwise
\* stopped.
C7_StatusDerivation ==
    (last.op = "list" /\ last.exit = ExitSuccess) =>
        /\ \A row \in Range(last.listed) :
              LET group == {c \in ManagedNow : c.labels.name = row.name}
                  onDisk == FirstOf(row.name).labels.worktreePath \in dirs
                  someRunning == \E c \in group : c.running
              IN  /\ group # {}
                  /\ row.status = "orphaned" <=> ~onDisk
                  /\ onDisk => (row.status = "running" <=> someRunning)
                  /\ (onDisk /\ ~someRunning) => row.status = "stopped"
        /\ last.filter = "all" => {row.name : row \in Range(last.listed)} = NamesNow

\* C7 witness: a listing that shows an environment orphaned while one of its
\* containers is running.
C7_Witness ==
    /\ last.op = "list" /\ last.exit = ExitSuccess
    /\ \E row \in Range(last.listed) :
          /\ row.status = "orphaned"
          /\ \E c \in ManagedNow : c.labels.name = row.name /\ c.running

\* the names in use: of the environments known from containers and of the
\* worktrees a create has written a configuration for
NamesInUse ==
    NamesNow \cup {wtFs[k].name : k \in {x \in DOMAIN wtFs : x.file = "devcontainer.json"}}

\* C8 (as claimed): a create whose resolved name is already in use fails, and
\* no two managed containers carry the same worktree.name with different
\* branches or worktree paths.
C8_NamesUnique ==
    [][/\ (CommandStep("create") /\ last'.name \in NamesInUse) => last'.exit # ExitSuccess
       /\ \A a, b \in ManagedNow :
             a.labels.name = b.labels.name =>
                /\ a.labels.branch = b.labels.branch
                /\ a.labels.worktreePath = b.labels.worktreePath]_vars

\* C9: no command changes a file of the source repository, and every file a
\* command writes or changes lies in the .devcontainer directory of a
\* worktree.
C9_SourceUntouched ==
    [][/\ srcFs' = srcFs
       /\ \A k \in DOMAIN wtFs' :
             (k \notin DOMAIN wtFs \/ wtFs'[k] # wtFs[k]) =>
                /\ k.root # RepoRoot
                /\ k.root \in dirs'
                /\ k.dir = ".devcontainer"]_vars

\* C9 witness: a create has written the override, the rewritten
\* devcontainer.json and a copied file into a worktree while the source
\* still has its devcontainer.json.
C9_Witness ==
    /\ last.op = "create" /\ last.wrote
    /\ SourceFile("devcontainer.json") \in DOMAIN srcFs
    /\ \E root \in dirs :
          /\ FileKey(root, ".devcontainer", "docker-compose.worktree.yml") \in DOMAIN wtFs
          /\ FileKey(root, ".devcontainer", "devcontainer.json") \in DOMAIN wtFs
          /\ FileKey(root, ".devcontainer", "docker-compose.yml") \in DOMAIN wtFs
          /\ wtFs[FileKey(root, ".devcontainer", "devcontainer.json")]
                # srcFs[SourceFile("devcontainer.json")]

\* C10 (as claimed): start and stop leave the labels alone: every
\* environment known before the command is known after it with the same
\* labels, and status is not a label.
C10_StartStopKeepLabels ==
    [][(CommandStep("start") \/ CommandStep("stop")) =>
          /\ \A c \in ManagedNow :
                \E i \in 1..Len(containers') :
                    /\ containers'[i].service = c.service
                    /\ containers'[i].project = c.project
                    /\ containers'[i].labels = c.labels
          /\ \A c \in ManagedNow : "status" \notin DOMAIN c.labels]_vars

\* nothing on the host changes in this step
HostUnchanged == UNCHANGED <<containers, dirs, gitWts, srcFs, wtFs>>

\* the command of this step went as far as changing the environment: the
\* environment exists, and the removal was forced or confirmed
RemoveGoesAhead ==
    /\ CommandStep("remove") /\ last'.up /\ last'.name \in NamesNow
    /\ (last'.force \/ last'.answer \in {"y", "yes"})

\* C15: start, stop and remove with a name that no managed container carries
\* exit with code 6 and change no container, worktree or file.
C15_UnknownNameExitsSix ==
    [][((CommandStep("start") \/ CommandStep("stop") \/ CommandStep("remove"))
            /\ last'.up /\ last'.name \notin NamesNow) =>
          (last'.exit = ExitEnvNotFound /\ HostUnchanged)]_vars

\* C15 witness: a remove of an unknown name ended with exit code 6 while
\* another environment has a running container.
C15_Witness ==
    /\ last.op = "remove" /\ last.exit = ExitEnvNotFound
    /\ last.name \notin NamesNow
    /\ \E c \in ManagedNow : c.running

\* C16: a failed Docker or docker compose call never ends a
\* command with the general exit code 1: start and stop do not exit 1, remove
\* exits 1 only when reading the answer failed, list only for an invalid
\* filter.
C16_DockerFailuresExitThree ==
    [][/\ (CommandStep("start") \/ CommandStep("stop")) => last'.exit # ExitGeneralError
       /\ (CommandStep("remove") /\ last'.exit = ExitGeneralError) => last'.answer = "err"
       /\ (CommandStep("list") /\ last'.exit = ExitGeneralError)
             => last'.filter \notin StatusFilters]_vars

\* C17: a remove without --force of an existing environment that reads an
\* answer other than y or yes (the end of input included) exits with code 7
\* and has changed no container and no worktree; so has one whose prompt
\* could not be read.
C17_DeclinedRemoveChangesNothing ==
    [][(CommandStep("remove") /\ last'.up /\ last'.name \in NamesNow /\ ~last'.force) =>
          /\ last'.answer \in {"n", "eof"} =>
                (last'.exit = ExitUserCancelled /\ HostUnchanged)
          /\ last'.answer = "err" => HostUnchanged
          /\ last'.exit = ExitUserCancelled => last'.answer \notin {"y", "yes"}]_vars

\* C17 witness: a remove that met the end of input at its prompt ended with
\* exit code 7 and the environment still has a running container and its
\* worktree.
C17_Witness ==
    /\ last.op = "remove" /\ last.answer = "eof" /\ last.exit = ExitUserCancelled
    /\ \E c \in ManagedNow :
          /\ c.labels.name = last.name /\ c.running
          /\ c.labels.worktreePath \in dirs

\* C18 (as claimed): a forced or confirmed remove of an existing environment
\* leaves none of its containers; with keepWorktree the worktree stays as it
\* was; without it the worktree is removed by git, a failure of git being a
\* Git error (exit 5) only while the directory still exists.
C18_RemoveRemovesContainers ==
    [][RemoveGoesAhead =>
          LET path == FirstOf(last'.name).labels.worktreePath
          IN  /\ \A i \in 1..Len(containers') :
                    ~(IsManaged(containers'[i])
                        /\ containers'[i].labels.name = last'.name)
              /\ last'.keepWorktree =>
                    (dirs' = dirs /\ gitWts' = gitWts /\ last'.exit = ExitSuccess)
              /\ ~last'.keepWorktree =>
                    /\ last'.exit \in {ExitSuccess, ExitGitError}
                    /\ last'.exit = ExitGitError <=> path \in dirs'
                    /\ \A w \in gitWts' : w.path # path]_vars

(***************************************************************************)
(* SpecLabels: BuildLabels and ParseLabels run on environments drawn from   *)
(* bounded sets                                                             *)
(***************************************************************************)
\* allocations an environment may hold: two services on container port 3000
\* and one on 5432, each with its own host port
LabelAllocChoices ==
    { PA("app", 3000, 13000, "tcp"), PA("web", 3000, 13001, "tcp"),
      PA("db", 5432, 15432, "tcp") }

\* the environments drawn: no allocation twice
EnvChoices ==
    [name            : {<<"b">>, <<"f", "-", "a">>},
     branch          : {<<"b">>, <<"f", "/", "a">>},
     worktreePath    : {<<"w">>},
     sourceRepoPath  : {RepoRoot},
     configPattern   : ConfigPatterns,
     createdAt       : 0..(2 * TicksPerSecond - 1),
     portAllocations : {q \in SeqsUpTo(LabelAllocChoices, MaxBatch) :
                           \A i, j \in 1..Len(q) : i # j => q[i] # q[j]}]

InitLabels ==
    /\ aPc = "env"
    /\ aIn \in EnvChoices
    /\ aOut = NoResult
    /\ aHist = <<>>
    /\ srcFs = <<>>
    /\ LifeEmpty

\* the labels are built for the environment and put on a container
RunBuildLabels ==
    /\ aPc = "env"
    /\ aOut' = BuildLabels(aIn)
    /\ aPc' = "labelled"
    /\ UNCHANGED <<aIn, aHist, lifeVars>>

\* the environment is reconstructed from the labels of that container
RunParseLabels ==
    /\ aPc = "labelled"
    /\ aOut' = ParseLabels(aOut)
    /\ aPc' = "parsed"
    /\ UNCHANGED <<aIn, aHist, lifeVars>>

NextLabels == RunBuildLabels \/ RunParseLabels

SpecLabels == InitLabels /\ [][NextLabels]_vars

\* how often the pair (containerPort, hostPort) occurs in a sequence of
\* allocations, and in a set of them
PairCountSeq(allocs, cp, hp) ==
    Cardinality({i \in 1..Len(allocs) :
                    allocs[i].containerPort = cp /\ allocs[i].hostPort = hp})

PairCountSet(allocs, cp, hp) ==
    Cardinality({a \in allocs : a.containerPort = cp /\ a.hostPort = hp})

\* C11 (as claimed): ParseLabels(BuildLabels(E)) succeeds and gives back the
\* name, branch, worktree path, source repo path and config pattern of E, its
\* creation time truncated to the second, and the same multiset of
\* (containerPort, hostPort) pairs.
C11_LabelRoundTrip ==
    aPc = "parsed" =>
        /\ ~aOut.err
        /\ aOut.env.name = aIn.name
        /\ aOut.env.branch = aIn.branch
        /\ aOut.env.worktreePath = aIn.worktreePath
        /\ aOut.env.sourceRepoPath = aIn.sourceRepoPath
        /\ aOut.env.configPattern = aIn.configPattern
        /\ aOut.env.createdAt = aIn.createdAt - (aIn.createdAt % TicksPerSecond)
        /\ \A cp \in 1..maxPort : \A hp \in {13000, 13001, 15432} :
              PairCountSet(aOut.env.portAllocations, cp, hp)
                  = PairCountSeq(aIn.portAllocations, cp, hp)

(***************************************************************************)
(* SpecList: list run once on a host whose managed containers were made     *)
(* by create or labelled by hand                                            *)
(***************************************************************************)
MaxListed == 3

ListNames == { <<"b">>, <<"e", "1", "0">>, <<"e", "2">> }

ListPath(name) == <<"repo", "-">> \o name

\* the label set create gives the containers of an image environment
ListLabels(name) ==
    BuildLabels([name |-> name, branch |-> name, worktreePath |-> ListPath(name),
                 sourceRepoPath |-> RepoRoot, configPattern |-> "image",
                 portAllocations |-> <<>>, createdAt |-> 0])

\* a managed container; one labelled by hand carries a config pattern that
\* is none of the four
ListContainerChoices ==
    { [project |-> name, service |-> <<>>, running |-> running, publish |-> {},
       labels |-> IF ok THEN ListLabels(name)
                  ELSE [ListLabels(name) EXCEPT !.configPattern = "custom"]] :
        name \in ListNames, running \in BOOLEAN, ok \in BOOLEAN }

\* which worktree directories are on disk
ListDirChoices ==
    { {}, {ListPath(n) : n \in ListNames \ {<<"b">>}}, {ListPath(n) : n \in ListNames} }

ListFilterChoices == { "all", "running", "orphaned", "Running", "bogus" }

InitList ==
    /\ AllocIdle
    /\ \E cs \in SeqsUpTo(ListContainerChoices, MaxListed) :
          containers = [i \in 1..Len(cs) |->
                           [id |-> i, project |-> cs[i].project, service |-> cs[i].service,
                            labels |-> cs[i].labels, running |-> cs[i].running,
                            publish |-> cs[i].publish, dead |-> FALSE]]
    /\ dirs \in ListDirChoices
    /\ gitWts = {}
    /\ srcFs = <<>>
    /\ wtFs = <<>>
    /\ clock = 0
    /\ last = NoLast

RunList ==
    \E filter \in ListFilterChoices : Becomes(runList(Host({}, TRUE), filter))

NextList == RunList

SpecList == InitList /\ [][NextList]_vars

\* the environments with a valid label set: the labels the environment is
\* read from have every required key and one of the four config patterns
ValidNames ==
    {n \in NamesNow :
        /\ RequiredKeys \subseteq DOMAIN FirstOf(n).labels
        /\ FirstOf(n).labels.configPattern \in ConfigPatterns}

\* the status of an environment as derived from the disk and the containers
DerivedStatus(n) ==
    IF FirstOf(n).labels.worktreePath \notin dirs THEN "orphaned"
    ELSE IF \E c \in ManagedNow : c.labels.name = n /\ c.running THEN "running"
    ELSE "stopped"

\* C19: list with a filter among running, stopped, orphaned, all prints
\* exactly the environments with a valid label set whose derived status is
\* the filter (all of them for all), each once, in ascending order of name,
\* and groups with an invalid label set do not make it fail; with any other
\* --status value it exits with code 1.
C19_ListOutput ==
    (last.op = "list" /\ last.up) =>
        /\ last.filter \notin StatusFilters =>
              (last.exit = ExitGeneralError /\ last.listed = <<>>)
        /\ last.filter \in StatusFilters =>
              /\ last.exit = ExitSuccess
              /\ {row.name : row \in Range(last.listed)} =
                    {n \in ValidNames :
                        last.filter = "all" \/ DerivedStatus(n) = last.filter}
              /\ \A i, j \in 1..Len(last.listed) :
                    i < j => StringLess(last.listed[i].name, last.listed[j].name)
              /\ \A row \in Range(last.listed) : row.status = DerivedStatus(row.name)
(***************************************************************************)
(* SpecOverride: the compose override runCreate generates for a compose     *)
(* devcontainer.json                                                        *)
(***************************************************************************)
\* the forwardPorts entries tried: 3000, "db:5432", "app:8080"
ForwardChoices ==
    { Item("num", <<>>, 0, 3000), Item("svc", Db, 0, 5432), Item("svc", App, 0, 8080) }

RunServicesChoices == { <<>>, <<App, Db>>, <<Db>> }

\* compose configurations: the service the editor attaches to is app
RawOverrideChoices ==
    { [RawEmpty EXCEPT
          !.dockerComposeFile = [kind |-> "string", files |-> <<"docker-compose.yml">>],
          !.service = App, !.runServices = rs, !.forwardPorts = fp] :
        rs \in RunServicesChoices, fp \in SeqsUpTo(ForwardChoices, MaxBatch) }

InitOverride ==
    /\ aPc = "config"
    /\ aIn \in [rawConfig : RawOverrideChoices,
                envName : {<<"b">>, <<"f", "-", "a">>},
                worktreeIndex : 1..2]
    /\ aOut = NoResult
    /\ aHist = <<>>
    /\ srcFs = <<>>
    /\ LifeEmpty

\* runCreate from the extraction of the ports to the generated override, on a
\* host with no other environment and no foreign listener
RunGenerateOverride ==
    /\ aPc = "config"
    /\ aPc' = "generated"
    /\ LET rawConfig == aIn.rawConfig
           defaultServiceName == IF rawConfig.service # <<>> THEN rawConfig.service
                                 ELSE aIn.envName
           originalPorts == ExtractPorts(rawConfig, defaultServiceName)
           allocated == AllocatePorts(<<>>, {}, originalPorts, aIn.worktreeIndex)
           pattern == DetectPattern(rawConfig, countComposeServices(rawConfig))
           env == [name |-> aIn.envName, branch |-> aIn.envName,
                   worktreePath |-> RepoRoot \o <<"-">> \o aIn.envName,
                   sourceRepoPath |-> RepoRoot, configPattern |-> pattern,
                   portAllocations |-> allocated.allocs, createdAt |-> 0]
           labels == BuildLabels(env)
           services == IF Len(rawConfig.runServices) = 0 /\ rawConfig.service # <<>>
                       THEN <<rawConfig.service>> ELSE rawConfig.runServices
       IN  aOut' = [err |-> allocated.err, allocs |-> allocated.allocs,
                    services |-> services, labels |-> labels,
                    override |-> GenerateComposeOverride(aIn.envName, services,
                                                         allocated.allocs, labels)]
    /\ UNCHANGED <<aIn, aHist, containers, dirs, gitWts, srcFs, wtFs, clock, last>>

NextOverride == RunGenerateOverride

SpecOverride == InitOverride /\ [][NextOverride]_vars

\* C20: the generated override carries the environment name, has exactly the
\* services of the source configuration as keys, gives every service every
\* label, gives each service the hostPort:containerPort mappings of its
\* allocations in allocation order, and so contains every port allocation of
\* the environment.
C20_OverrideCarriesAllAllocations ==
    (aPc = "generated" /\ ~aOut.err) =>
        LET o == aOut.override
            mapping(pa) == [host |-> pa.hostPort, container |-> pa.containerPort]
        IN  /\ o.name = aIn.envName
            /\ DOMAIN o.services = Range(aOut.services)
            /\ \A svc \in DOMAIN o.services :
                  /\ \A k \in DOMAIN aOut.labels :
                        /\ k \in DOMAIN o.services[svc].labels
                        /\ o.services[svc].labels[k] = aOut.labels[k]
                  /\ LET mine == SelectSeq(aOut.allocs, LAMBDA pa : pa.serviceName = svc)
                     IN  o.services[svc].ports = [i \in 1..Len(mine) |-> mapping(mine[i])]
            /\ \A i \in 1..Len(aOut.allocs) :
                  \E svc \in DOMAIN o.services :
                      mapping(aOut.allocs[i]) \in Range(o.services[svc].ports)
(***************************************************************************)
(* SpecRewrite: RewriteConfig and RewriteComposeConfig on configurations    *)
(* drawn from bounded sets                                                  *)
(***************************************************************************)
OverrideFile == "docker-compose.worktree.yml"

\* the dockerComposeFile values tried: absent, a string, arrays without the
\* override, with it at the end, and with a file listed after it
ComposeFileChoices ==
    { [kind |-> "nil", files |-> <<>>],
      [kind |-> "string", files |-> <<"docker-compose.yml">>],
      [kind |-> "array", files |-> <<"docker-compose.yml">>],
      [kind |-> "array", files |-> <<"docker-compose.yml", "docker-compose.dev.yml">>],
      [kind |-> "array", files |-> <<"docker-compose.yml", OverrideFile>>],
      [kind |-> "array", files |-> <<"docker-compose.yml", OverrideFile,
                                     "docker-compose.dev.yml">>] }

\* the configurations rewritten: with and without runArgs, containerEnv
\* entries (WORKTREE_NAME among them) and portsAttributes
RewriteRawChoices ==
    { [RawEmpty EXCEPT
          !.image = "node",
          !.dockerComposeFile = dcf,
          !.forwardPorts = << Item("num", <<>>, 0, 3000) >>,
          !.runArgs = ra, !.containerEnv = ce, !.portsAttributes = pa] :
        dcf \in ComposeFileChoices,
        ra \in { <<>>, <<[flag |-> "--init", labels |-> NoLabels]>> },
        ce \in { NoVars,
                 [NODE_ENV |-> <<"d", "e", "v">>],
                 [NODE_ENV |-> <<"d", "e", "v">>, WORKTREE_NAME |-> <<"o", "l", "d">>] },
        pa \in { <<>>, (3000 :> "A"), (3000 :> "A" @@ 8080 :> "C"),
                 (3000 :> "A" @@ 13000 :> "B") } }

InitRewrite ==
    /\ aPc = "raw"
    /\ aIn \in [raw : RewriteRawChoices,
                envName : {<<"b">>},
                worktreeIndex : {1},
                allocs : {a \in SeqsUpTo(LabelAllocChoices, MaxBatch) :
                             \A i, j \in 1..Len(a) : i # j => a[i] # a[j]},
                visit : {"up", "down"}]
    /\ aOut = NoResult
    /\ aHist = <<>>
    /\ srcFs = <<>>
    /\ LifeEmpty

\* RewriteConfig as runCreate calls it for an image or Dockerfile
\* configuration
RunRewriteConfig ==
    /\ aPc = "raw"
    /\ aPc' = "rewritten"
    /\ LET env == [name |-> aIn.envName, branch |-> aIn.envName,
                   worktreePath |-> RepoRoot \o <<"-">> \o aIn.envName,
                   sourceRepoPath |-> RepoRoot, configPattern |-> "image",
                   portAllocations |-> aIn.allocs, createdAt |-> 0]
       IN  aOut' = [err |-> FALSE,
                    config |-> RewriteConfig(aIn.raw, aIn.envName, aIn.worktreeIndex,
                                             aIn.allocs, BuildLabels(env), aIn.visit)]
    /\ UNCHANGED <<aIn, aHist, containers, dirs, gitWts, srcFs, wtFs, clock, last>>

\* RewriteComposeConfig, first on the configuration drawn and then on its
\* own output
RunRewriteComposeConfig ==
    /\ aPc \in {"raw", "compose"}
    /\ Len(aHist) < 2
    /\ aPc' = "compose"
    /\ aHist' = Append(aHist,
                       RewriteComposeConfig(IF aHist = <<>> THEN aIn.raw
                                            ELSE aHist[Len(aHist)],
                                            aIn.envName, OverrideFile))
    /\ UNCHANGED <<aIn, aOut, containers, dirs, gitWts, srcFs, wtFs, clock, last>>

NextRewrite == RunRewriteConfig \/ RunRewriteComposeConfig

SpecRewrite == InitRewrite /\ [][NextRewrite]_vars

\* C21: after RewriteComposeConfig dockerComposeFile is an array holding the
\* original entries in their order (a string as a one-element array), with
\* the override path exactly once and as the last element; a second rewrite
\* leaves the array unchanged.
C21_OverrideLastOnce ==
    (aPc = "compose") =>
        LET orig == aIn.raw.dockerComposeFile.files
            out  == aHist[1].dockerComposeFile
            others(fs) == SelectSeq(fs, LAMBDA f : f # OverrideFile)
        IN  /\ out.kind = "array"
            /\ others(out.files) = others(orig)
            /\ Len(SelectSeq(out.files, LAMBDA f : f = OverrideFile)) = 1
            /\ out.files[Len(out.files)] = OverrideFile
            /\ Len(aHist) = 2 => aHist[2].dockerComposeFile = out

\* C22: RewriteConfig leaves every key it does not know with its value,
\* keeps the elements of runArgs in place ahead of the appended labels, and
\* keeps every containerEnv entry other than WORKTREE_NAME and
\* WORKTREE_INDEX.
C22_RewriteKeepsTheRest ==
    (aPc = "rewritten") =>
        LET raw == aIn.raw
            out == aOut.config
        IN  /\ \A key \in {"image", "build", "dockerComposeFile", "service",
                           "runServices", "forwardPorts"} : out[key] = raw[key]
            /\ Len(out.runArgs) = Len(raw.runArgs) + 1
            /\ SubSeq(out.runArgs, 1, Len(raw.runArgs)) = raw.runArgs
            /\ out.runArgs[Len(out.runArgs)].flag = "--label"
            /\ out.runArgs[Len(out.runArgs)].labels.name = aIn.envName
            /\ \A k \in DOMAIN raw.containerEnv \ {"WORKTREE_NAME", "WORKTREE_INDEX"} :
                  /\ k \in DOMAIN out.containerEnv
                  /\ out.containerEnv[k] = raw.containerEnv[k]
            /\ out.containerEnv["WORKTREE_NAME"] = aIn.envName
            /\ out.containerEnv["WORKTREE_INDEX"] = Itoa(aIn.worktreeIndex)

\* C22 witness: a configuration with a runArgs element, a containerEnv entry
\* and an old WORKTREE_NAME has been rewritten.
C22_Witness ==
    /\ aPc = "rewritten"
    /\ Len(aIn.raw.runArgs) = 1
    /\ "WORKTREE_NAME" \in DOMAIN aIn.raw.containerEnv
    /\ aOut.config.containerEnv["NODE_ENV"] = <<"d", "e", "v">>
    /\ Len(aOut.config.runArgs) = 2
    /\ aOut.config.image = "node"

\* C28: every portsAttributes entry whose key is an allocated container port
\* is found with its value under the allocated host port, every other entry
\* under its own key, and none is dropped or overwritten by another.
C28_PortsAttributesRekeyed ==
    (aPc = "rewritten") =>
        LET old == aIn.raw.portsAttributes
            new == aOut.config.portsAttributes
            hosts(k) == {aIn.allocs[i].hostPort :
                            i \in {j \in 1..Len(aIn.allocs) :
                                      aIn.allocs[j].containerPort = k}}
        IN  /\ \A k \in DOMAIN old :
                  IF hosts(k) # {}
                  THEN \E n \in hosts(k) : n \in DOMAIN new /\ new[n] = old[k]
                  ELSE k \in DOMAIN new /\ new[k] = old[k]
            /\ Cardinality(DOMAIN new) = Cardinality(DOMAIN old)
(***************************************************************************)
(* SpecBusy: create on a host where foreign processes hold port ranges,     *)
(* with no environment yet or with six of them                              *)
(***************************************************************************)
\* what foreign processes hold when create probes the ports: nothing, the
\* ports 13000..22999, or every port from 13000 up
CreateExtChoices ==
    { {}, {BusyRange("tcp", 13000, 22999)}, {BusyRange("tcp", 13000, maxPort)} }

InitBusy ==
    /\ AllocIdle
    /\ \E n \in {0, 6} : \E h \in {Prebuilt(n)} :
          /\ containers = h.containers
          /\ dirs = h.dirs
          /\ gitWts = h.gitWts
          /\ srcFs = [k \in {x \in DOMAIN h.fs : x.root = RepoRoot} |-> h.fs[k]]
          /\ wtFs = [k \in {x \in DOMAIN h.fs : x.root # RepoRoot} |-> h.fs[k]]
    /\ clock = 0
    /\ last = NoLast

CreateBusy ==
    /\ clock < MaxClock
    /\ \E c \in FullCreateChoices, up \in BOOLEAN, ext \in CreateExtChoices :
          Becomes(runCreate(Host(ext, up), c.cwdInRepo, c.branch, c.flags))

NextBusy == CreateBusy \/ Return

SpecBusy == InitBusy /\ [][NextBusy]_vars

\* the host port the override of environment name publishes for the one
\* service of the source
WrittenHostPort(fs, name) ==
    fs[FileKey(RepoRoot \o <<"-">> \o name, ".devcontainer", OverrideFile)]
        .services[App].ports[1].host

\* C23: when the shifted candidate of create's port is above 65535, or it is
\* taken and so is every port of the block scan, create takes the lowest
\* port of 49152..65535 that is neither known from the labels nor bound; if
\* there is none the allocation fails: create exits with code 4, has written
\* no configuration and has launched no container.
C23_EphemeralFallback ==
    [][(CommandStep("create") /\ last'.up /\ last'.exit # ExitGitError) =>
          LET cand == 3000 + last'.index * portShiftMultiplier
              known == UNION {LabelPorts(c) : c \in ManagedNow}
              free(p) == /\ p \notin known
                         /\ ~OsBusy(HostBusy(containers, last'.ext), p, "tcp")
              blockEnd == IF cand + portShiftMultiplier - 1 > maxPort THEN maxPort
                          ELSE cand + portShiftMultiplier - 1
              ephemeral == {p \in dynamicRangeStart..dynamicRangeEnd : free(p)}
          IN  (\/ cand > maxPort
               \/ ~free(cand) /\ \A p \in (cand + 1)..blockEnd : ~free(p)) =>
                 IF ephemeral # {}
                 THEN /\ last'.wrote
                      /\ WrittenHostPort(wtFs', last'.name) \in ephemeral
                      /\ \A p \in ephemeral : WrittenHostPort(wtFs', last'.name) <= p
                 ELSE /\ last'.exit = ExitPortAllocationFailed
                      /\ ~last'.wrote /\ ~last'.launched
                      /\ containers' = containers
                      /\ wtFs' = wtFs]_vars

\* C23 witness: a create whose candidate 73000 is above 65535 got the port
\* 49152, and its container publishes it.
C23_Witness ==
    /\ last.op = "create" /\ last.index = 7 /\ last.exit = ExitSuccess
    /\ \E c \in ManagedNow :
          c.labels.name = last.name /\ c.running /\ c.publish = {dynamicRangeStart}

(***************************************************************************)
(* Lifecycle properties: what a failed create leaves behind                 *)
(***************************************************************************)
\* the worktree of environment name stands where create puts it by default,
\* nothing has been written into it and no managed container carries the
\* name: what a create leaves that failed between worktree add and launch
LeftByFailedCreate(name) ==
    /\ RepoRoot \o <<"-">> \o name \in dirs
    /\ ~\E k \in DOMAIN wtFs : k.root = RepoRoot \o <<"-">> \o name
    /\ name \notin NamesNow

\* C25 (as claimed): a create that fails with exit code 2 or 4 has added the
\* Git worktree, leaves it on disk and creates no container; a remove of
\* that name then finds the environment, and when it succeeds without
\* --keep-worktree the worktree is gone.
C25_FailedCreateCleanedByRemove ==
    [][/\ (CommandStep("create")
              /\ last'.exit \in {ExitDevContainerNotFound, ExitPortAllocationFailed}) =>
            (/\ \E w \in gitWts' \ gitWts : w.path \in dirs' \ dirs
             /\ containers' = containers)
       /\ (CommandStep("remove") /\ last'.up /\ LeftByFailedCreate(last'.name)) =>
            (/\ last'.exit # ExitEnvNotFound
             /\ (last'.exit = ExitSuccess /\ ~last'.keepWorktree) =>
                    RepoRoot \o <<"-">> \o last'.name \notin dirs')]_vars

\* C30: the tool knows an environment only through managed containers that
\* carry its name.  A name without such a container (after create
\* --no-start, or after a create that failed before launch) is not listed,
\* start, stop and remove on it exit with code 6, and a create counts only
\* the names of managed containers for its index and takes the lowest port
\* from its candidate upwards that is neither in the labels of a managed
\* container nor bound, whatever the worktrees on disk have written.
C30_KnownOnlyByContainers ==
    [][/\ (CommandStep("list") /\ last'.exit = ExitSuccess) =>
            \A i \in 1..Len(last'.listed) : last'.listed[i].name \in NamesNow
       /\ ((CommandStep("start") \/ CommandStep("stop") \/ CommandStep("remove"))
              /\ last'.up /\ last'.name \notin NamesNow) =>
            last'.exit = ExitEnvNotFound
       /\ (CommandStep("create") /\ last'.up /\ last'.wrote) =>
            /\ last'.index = Cardinality(NamesNow) + 1
            /\ FileKey(RepoRoot \o <<"-">> \o last'.name, ".devcontainer", OverrideFile)
                    \in DOMAIN wtFs' \ DOMAIN wtFs =>
                 LET known == UNION {LabelPorts(c) : c \in ManagedNow}
                     free(p) == /\ p \notin known
                                /\ ~OsBusy(HostBusy(containers, {}), p, "tcp")
                     cand == 3000 + last'.index * portShiftMultiplier
                     got == WrittenHostPort(wtFs', last'.name)
                 IN  /\ got >= cand /\ free(got)
                     /\ \A p \in cand..(got - 1) : ~free(p)]_vars

\* C30 witness: environment f-a was created with --no-start and has port
\* 13000 in its override file; the create of b after it ran with index 1
\* and its container runs on port 13000.
C30_Witness ==
    /\ last.op = "create" /\ last.name = <<"b">> /\ last.exit = ExitSuccess
    /\ last.index = 1
    /\ FileKey(RepoRoot \o <<"-", "f", "-", "a">>, ".devcontainer", OverrideFile)
            \in DOMAIN wtFs
    /\ WrittenHostPort(wtFs, <<"f", "-", "a">>) = 13000
    /\ <<"f", "-", "a">> \notin NamesNow
    /\ \E c \in ManagedNow : c.labels.name = <<"b">> /\ c.running /\ 13000 \in c.publish

\* C29: a start on an environment whose own running containers publish
\* allocated host ports finds those ports taken: it exits with code 4 and
\* changes no container.  A start that succeeds found every allocated host
\* port of the environment unbound.
C29_StartOnRunningFails ==
    [][(CommandStep("start") /\ last'.up /\ last'.name \in NamesNow) =>
          LET allocated == LabelPorts(FirstOf(last'.name))
              held == {p \in allocated :
                          \E c \in ManagedNow : /\ c.labels.name = last'.name
                                                /\ c.running /\ p \in c.publish}
              bound == {p \in allocated :
                          OsBusy(HostBusy(containers, last'.ext), p, "tcp")}
          IN  /\ held # {} =>
                    /\ last'.exit = ExitPortAllocationFailed
                    /\ held \subseteq last'.conflicts
                    /\ containers' = containers
              /\ last'.exit = ExitSuccess => bound = {}]_vars

\* C29 witness: a start of environment b, whose running container publishes
\* its port 13000, ended with exit code 4 naming that port, nothing else
\* holding a port on the host.
C29_Witness ==
    /\ last.op = "start" /\ last.name = <<"b">> /\ last.ext = {}
    /\ last.exit = ExitPortAllocationFailed
    /\ 13000 \in last.conflicts
    /\ \E c \in ManagedNow :
          c.labels.name = <<"b">> /\ c.running /\ 13000 \in c.publish

\* the status list derives for environment name from the containers cs and
\* the directories on disk
StatusIn(cs, onDisk, name) ==
    LET group == SelectSeq(cs, LAMBDA c : IsManaged(c) /\ c.labels.name = name)
    IN  IF group = <<>> THEN "unknown"
        ELSE determineStatus(group, group[1].labels.worktreePath, onDisk)

\* C26 (as claimed): after a successful stop of an environment whose
\* worktree is on disk none of its containers runs and its status is
\* stopped; after a successful start of a stopped environment its status is
\* running; list shows an environment orphaned exactly when its worktree
\* directory is not on disk, and apart from remove no command takes the
\* containers of an orphaned environment away.
C26_StatusTransitions ==
    [][/\ (CommandStep("stop") /\ last'.exit = ExitSuccess
              /\ StatusIn(containers, dirs, last'.name) \in {"running", "stopped"}) =>
            /\ StatusIn(containers', dirs', last'.name) = "stopped"
            /\ \A i \in 1..Len(containers') :
                  (IsManaged(containers'[i]) /\ containers'[i].labels.name = last'.name)
                      => ~containers'[i].running
       /\ (CommandStep("start") /\ last'.exit = ExitSuccess
              /\ StatusIn(containers, dirs, last'.name) = "stopped") =>
            StatusIn(containers', dirs', last'.name) = "running"
       /\ (CommandStep("list") /\ last'.exit = ExitSuccess) =>
            \A i \in 1..Len(last'.listed) :
                last'.listed[i].status = "orphaned"
                    <=> StatusIn(containers, dirs, last'.listed[i].name) = "orphaned"
       /\ \A name \in NamesNow :
            (StatusIn(containers, dirs, name) = "orphaned" /\ ~CommandStep("remove")) =>
                StatusIn(containers', dirs', name) # "unknown"]_vars

(***************************************************************************)
(* SpecRace: two create invocations that overlap.  Each selects its ports   *)
(* from what the daemon answers at that moment (runCreate, steps 6 and 7)   *)
(* and writes and launches later; create takes no lock in between.  The     *)
(* two work on different branches, so the worktree each has added before    *)
(* it selects does not touch the other and is added here with the launch.   *)
(***************************************************************************)
RaceProcs == {1, 2}
RaceBranch == <<<<"b">>, <<"f", "/", "a">>>>
RaceName == <<<<"b">>, <<"f", "-", "a">>>>

RaceSources ==
    { ComposeSingleSource,
      (SourceFile("devcontainer.json") :> RawComposeMulti)
        @@ (SourceFile("docker-compose.yml") :> BaseCompose({App, Db})) }

InitRace ==
    /\ aPc = [p \in RaceProcs |-> "idle"]
    /\ aIn \in [RaceProcs -> [noStart : BOOLEAN, seen : {<<>>}]]
    /\ aOut = [p \in RaceProcs |-> NoLast]
    /\ aHist = <<>>
    /\ srcFs \in RaceSources
    /\ LifeEmpty

\* process p has asked the daemon for the environments, the labels and the
\* bound ports
RaceSelect(p) ==
    /\ aPc[p] = "idle"
    /\ aPc' = [aPc EXCEPT ![p] = "selected"]
    /\ aIn' = [aIn EXCEPT ![p].seen = containers]
    /\ UNCHANGED <<aOut, aHist, lifeVars>>

\* process p writes its files and launches (or not, with --no-start)
RaceLaunch(p) ==
    /\ aPc[p] = "selected"
    /\ \E r \in {runCreateSeen(Host({}, TRUE),
                                [Host({}, TRUE) EXCEPT !.containers = aIn[p].seen],
                                TRUE, RaceBranch[p],
                                Flags(<<>>, <<>>, aIn[p].noStart))} :
          /\ containers' = r.h.containers
          /\ dirs' = r.h.dirs
          /\ gitWts' = r.h.gitWts
          /\ wtFs' = [k \in {x \in DOMAIN r.h.fs : x.root # RepoRoot} |-> r.h.fs[k]]
          /\ clock' = r.h.clock
          /\ aOut' = [aOut EXCEPT ![p] = r.out]
    /\ aPc' = [aPc EXCEPT ![p] = "done"]
    /\ aHist' = Append(aHist, p)
    /\ UNCHANGED <<aIn, srcFs, last>>

NextRace ==
    \/ \E p \in RaceProcs : RaceSelect(p)
    \/ \E p \in RaceProcs : RaceLaunch(p)
    \/ ContainerExit

SpecRace == InitRace /\ [][NextRace]_vars

\* the host ports environment name has in its override file
WrittenHostPorts(fs, name) ==
    LET f == fs[FileKey(RepoRoot \o <<"-">> \o name, ".devcontainer", OverrideFile)]
    IN  UNION {{f.services[svc].ports[i].host : i \in 1..Len(f.services[svc].ports)} :
                  svc \in DOMAIN f.services}

\* no host port is published by running containers of two environments
NoSharedBinding(cs) ==
    \A i, j \in 1..Len(cs) :
        (/\ cs[i].running /\ cs[j].running
         /\ IsManaged(cs[i]) /\ IsManaged(cs[j])
         /\ cs[i].labels.name # cs[j].labels.name)
            => cs[i].publish \cap cs[j].publish = {}

PlainName == <<"e", "1">>

PlainLabels(name) ==
    BuildLabels([name |-> name, branch |-> name,
                 worktreePath |-> RepoRoot \o <<"-">> \o name,
                 sourceRepoPath |-> RepoRoot, configPattern |-> "image",
                 portAllocations |-> << PA("", 3000, 13000, "tcp"),
                                        PA("", 8080, 18080, "tcp") >>,
                 createdAt |-> 0])

\* what the three containers of the environment publish
PlainPublish == << {13000}, {18080}, {} >>

InitPlain ==
    /\ AllocIdle
    /\ \E running, dead \in [1..3 -> BOOLEAN] :
          containers =
              [i \in 1..3 |->
                  [id |-> i, project |-> PlainName, service |-> <<>>,
                   labels |-> PlainLabels(PlainName), running |-> running[i],
                   publish |-> PlainPublish[i], dead |-> dead[i]]]
              \o << [id |-> 4, project |-> <<"b">>, service |-> <<>>,
                     labels |-> PlainLabels(<<"b">>), running |-> TRUE,
                     publish |-> {}, dead |-> FALSE] >>
    /\ dirs = {RepoRoot \o <<"-">> \o n : n \in {PlainName, <<"b">>}}
    /\ gitWts = {[path |-> RepoRoot \o <<"-">> \o n, branch |-> n] :
                    n \in {PlainName, <<"b">>}}
    /\ srcFs = <<>>
    /\ wtFs = <<>>
    /\ clock = 0
    /\ last = NoLast

NextPlain == Start \/ Stop \/ Remove \/ Return \/ ContainerExit

SpecPlain == InitPlain /\ [][NextPlain]_vars

\* the containers of environment name in the order the daemon lists them
PlainGroup(name) ==
    SelectSeq(containers, LAMBDA c : IsManaged(c) /\ c.labels.name = name)

\* the position in the group of the first container the daemon refuses to
\* act on; one past the end when there is none
FirstRefused(group) ==
    CHOOSE k \in 1..(Len(group) + 1) :
        /\ k <= Len(group) => group[k].dead
        /\ \A i \in 1..(k - 1) : ~group[i].dead

\* after the step, container c is as it was apart from running, which is now
\* as given
NowRunning(c, running) ==
    \E j \in 1..Len(containers') : containers'[j] = [c EXCEPT !.running = running]

\* C27: stop, start and remove on an environment that is not a compose one
\* go through its containers in listing order; the containers before the
\* first one whose operation fails are stopped, started or removed, that one
\* and those after it are left as they were, the command exits with the
\* failure (code 1), and remove then leaves the Git worktree in place.
\* Without a failure every container is processed and the command succeeds.
C27_LoopStopsAtFirstFailure ==
    [][\A op \in {"stop", "start", "remove"} :
          (/\ CommandStep(op) /\ last'.up /\ last'.name \in NamesNow
           /\ ~IsCompose(FirstOf(last'.name).labels.configPattern)
           /\ op = "start" => last'.exit # ExitPortAllocationFailed
           /\ op = "remove" => (last'.force \/ last'.answer \in {"y", "yes"})) =>
              LET group == PlainGroup(last'.name)
                  k == FirstRefused(group)
              IN  /\ \A i \in 1..(k - 1) :
                        CASE op = "stop"  -> NowRunning(group[i], FALSE)
                          [] op = "start" -> NowRunning(group[i], TRUE)
                          [] OTHER -> \A j \in 1..Len(containers') :
                                         containers'[j].id # group[i].id
                  /\ \A i \in k..Len(group) : NowRunning(group[i], group[i].running)
                  /\ \A c \in Range(containers) :
                        c \notin Range(group) => NowRunning(c, c.running)
                  /\ last'.exit = IF k <= Len(group) THEN ExitGeneralError
                                  ELSE ExitSuccess
                  /\ (op = "remove" /\ k <= Len(group)) =>
                        (dirs' = dirs /\ gitWts' = gitWts)]_vars

\* C27 witness: a stop that ended with exit code 1 at the second container
\* of the environment: the first is stopped, the third still runs.
C27_Witness ==
    /\ last.op = "stop" /\ last.name = PlainName /\ last.exit = ExitGeneralError
    /\ Len(containers) = 4
    /\ ~containers[1].running /\ ~containers[1].dead
    /\ containers[2].dead
    /\ containers[3].running /\ ~containers[3].dead
====
